---- MODULE Spec2Model ----
(***************************************************************************)
(* Model of qzcli's authentication core: the bearer-token client           *)
(* (qzcli/api.py, QzAPI._get_token and QzAPI._request), and the token and   *)
(* cookie records it keeps on disk (qzcli/config.py).                       *)
(*                                                                         *)
(* Several callers share one QzAPI object (get_jobs_detail runs             *)
(* get_job_detail on a thread pool), so every read and write of             *)
(* self._token and of the two files is a step of its own.                   *)
(***************************************************************************)
EXTENDS Integers, Sequences, FiniteSets, TLC

(* ------------------------------ bounds --------------------------------- *)

\* Number of callers that use the one client concurrently.
NumCallers == 2

\* The clock of the client runs from 0 to MaxNow seconds.
MaxNow == 1

\* The clock of the cache on its own runs from 0 to CacheMaxNow seconds.
CacheMaxNow == 12

\* Passwords of every length up to MaxShort are tried in full.
MaxShort == 2

\* Moduli of every numeral of up to MaxHexLen hex digits are tried.
MaxHexLen == 3

\* Passwords are tried from Margin below the shortest ciphertext to Margin
\* above the longest.
Margin == 1

(* ------------------------- program constants --------------------------- *)

\* config.py:92, the margin subtracted from a token's expiry.
GRACE == 300

\* api.py:74, the lifetime assumed when the server names none.
DEFAULT_EXPIRES_IN == 604800

\* api.py:98, the business code that says the token is no longer accepted.
AUTH_EXPIRED == -1

\* api.py:103, the business code of a successful response.
CODE_OK == 0

TOKEN_CACHE_FILE == ".token_cache"

COOKIE_FILE == ".cookie"

Paths == {TOKEN_CACHE_FILE, COOKIE_FILE}

Callers == 1..NumCallers

(* ------------------------------ values --------------------------------- *)

\* self._token before any token is known (api.py:38).
None == <<>>

\* A token left in the cache file by an earlier run of the program.
PriorToken == <<0, 0>>

\* The token the server hands out in caller t's k-th exchange.
FreshToken(t, k) == <<t, k>>

Tokens == {PriorToken} \cup {FreshToken(t, k) : t \in Callers, k \in 1..2}

\* What the token endpoint may say of a token's lifetime: nothing, or a
\* lifetime that runs out of its margin one second after the exchange.
ServerLifetimes == {[given |-> FALSE, expires_in |-> 0],
                    [given |-> TRUE, expires_in |-> GRACE + 1]}

\* Business codes an endpoint may answer with.
BusinessCodes == {CODE_OK, AUTH_EXPIRED, 500}

Cookies == {"session=a", "session=b"}

Workspaces == {""}

\* Contents of a file: missing, a complete JSON record, or anything json.load
\* rejects (empty after the truncating open, or half-written).
Absent == [kind |-> "absent"]

Partial == [kind |-> "partial"]

Miss == [kind |-> "none"]

TokenRecord(token, expires_at) ==
    [kind |-> "record", token |-> token, expires_at |-> expires_at]

CookieRecord(cookie, workspace_id, saved_at) ==
    [kind |-> "record", cookie |-> cookie, workspace_id |-> workspace_id,
     saved_at |-> saved_at]

Running == [kind |-> "running", code |-> 0]

Success == [kind |-> "ok", code |-> 0]

Raised(kind, code) == [kind |-> kind, code |-> code]

(* ------------------------------ state ---------------------------------- *)

VARIABLES
    mem,          \* self._token of the shared client
    files,        \* contents of the token cache file and of the cookie file
    now,          \* time.time()
    creds,        \* whether username and password are configured
    lifetime,     \* the expires_in the token endpoint names, if it names one
    tokenExpiry,  \* history: the expires_at of each token that was issued
    pc,           \* each caller's position in the code
    op,           \* the operation each caller runs
    retry,        \* retry_on_auth_error of the caller's _request frame
    tok,          \* the token the caller's _get_token returned
    tmp,          \* cache["token"] read at api.py:47, awaiting api.py:49
    ttl,          \* expires_in of the exchange the caller is completing
    wr,           \* the record the caller is writing to a file
    fd,           \* state of the file the caller holds open for writing
    calls,        \* POSTs to the endpoint the caller has sent
    resp,         \* business codes the endpoint answered the caller with
    rejected,     \* the token the caller sent when it received AUTH_EXPIRED
    exch,         \* token exchanges (POST /auth/token) the caller has sent
    refreshed,    \* the caller has stored a token after an AUTH_EXPIRED
    outcome,      \* how the caller's operation ended
    probe,        \* history of the last save_token / get_token of the cache
    login,        \* the run of login_with_cas: its session, requests and result
    enc           \* the password given to encrypt_password, and what it returned

vars == <<mem, files, now, creds, lifetime, tokenExpiry, pc, op, retry, tok,
          tmp, ttl, wr, fd, calls, resp, rejected, exch, refreshed, outcome,
          probe, login, enc>>

\* Everything but the run of login_with_cas.
clientVars == <<mem, files, now, creds, lifetime, tokenExpiry, pc, op, retry,
                tok, tmp, ttl, wr, fd, calls, resp, rejected, exch, refreshed,
                outcome, probe, enc>>

(* --------------------------- qzcli/config.py --------------------------- *)

\* A get_token_cache that still returns a record at the margin itself.
get_token_cache_at_margin(content, time) ==
    IF content.kind = "record" /\ content.expires_at >= time + GRACE
    THEN content
    ELSE Miss

\* get_token_cache: the record, if the file holds one that json.load accepts
\* and that is not within GRACE seconds of its expiry; otherwise None.
get_token_cache(content, time) ==
    IF content.kind = "record" /\ content.expires_at > time + GRACE
    THEN content
    ELSE Miss

\* The record save_token_cache builds.
token_cache_record(token, expires_in, time) ==
    TokenRecord(token, time + expires_in)

\* get_cookie: the record, or None when the file is missing or unreadable.
get_cookie(content) ==
    IF content.kind = "record" THEN content ELSE Miss

\* The record save_cookie builds.
cookie_record(cookie, workspace_id, time) ==
    CookieRecord(cookie, workspace_id, time)

\* The file a caller at write position p has open.
OpenPath(p) ==
    IF p = "sv_write" THEN TOKEN_CACHE_FILE
    ELSE IF p = "ck_write" THEN COOKIE_FILE
    ELSE "none"

\* open(path, "w"): the file exists and is empty from here on. A writer that
\* opened the same file earlier and was overwritten since starts from an empty
\* file again.
OpenForWrite(t, path) ==
    /\ files' = [files EXCEPT ![path] = Partial]
    /\ fd' = [u \in Callers |->
                IF u = t THEN "live"
                ELSE IF OpenPath(pc[u]) = path /\ fd[u] = "clobbered" THEN "live"
                ELSE fd[u]]

\* What the file holds after json.dump and close by a writer in state f: a
\* writer whose file was unlinked writes to no path; one whose file another
\* writer has written since the open leaves its own record or a mix of both.
AfterWrite(f, old, record) ==
    IF f = "orphan" THEN {old}
    ELSE IF f = "clobbered" THEN {record, Partial}
    ELSE {record}

\* json.dump(record, f) and the close that ends the with-block.
WriteAndClose(t, path) ==
    /\ \E content \in AfterWrite(fd[t], files[path], wr[t]) :
          files' = [files EXCEPT ![path] = content]
    /\ fd' = [u \in Callers |->
                IF u = t THEN "closed"
                ELSE IF OpenPath(pc[u]) = path /\ fd[t] # "orphan"
                        /\ fd[u] \in {"live", "clobbered"} THEN "clobbered"
                ELSE fd[u]]

\* An unlink that takes every file of the configuration directory with it.
UnlinkEverything(path) ==
    /\ files' = [p \in Paths |-> Absent]
    /\ fd' = [u \in Callers |-> IF fd[u] # "closed" THEN "orphan" ELSE fd[u]]

\* Path.unlink(): the path is gone; writers that hold the file keep writing
\* to a file no path names.
Unlink(path) ==
    /\ files' = [files EXCEPT ![path] = Absent]
    /\ fd' = [u \in Callers |->
                IF OpenPath(pc[u]) = path /\ fd[u] # "closed" THEN "orphan"
                ELSE fd[u]]

Exists(path) == files[path].kind # "absent"

(* ---------------------------- qzcli/api.py ----------------------------- *)

\* The operations that use the bearer token, and those that use the cookie.
BearerOps == {"execute", "test_connection"}

CookieOps == {"save_cookie", "clear_cookie", "cookie_request", "login"}

\* Where each operation starts.
Entry(o) ==
    CASE o = "execute" -> "gt_check"
      [] o = "test_connection" -> "gt_check"
      [] o = "save_cookie" -> "ck_open"
      [] o = "clear_cookie" -> "cc_exists"
      [] o = "cookie_request" -> "cr_read"
      [] o = "login" -> "lg_wait"

\* A _get_token that never honours force_refresh.
force_refresh_ignored(t) == FALSE

\* test_connection calls _get_token(force_refresh=True); _request calls
\* _get_token().
force_refresh(t) == op[t] = "test_connection"

\* What the token endpoint may answer: no answer at all, a business error, or
\* code 0 with or without an access_token and with or without expires_in.
TokenReplies(t) ==
    {[kind |-> "transport", code |-> 0, access_token |-> None,
      has_expires_in |-> FALSE, expires_in |-> 0]}
    \cup {[kind |-> "reply", code |-> c, access_token |-> None,
           has_expires_in |-> FALSE, expires_in |-> 0] :
             c \in BusinessCodes \ {CODE_OK}}
    \cup {[kind |-> "reply", code |-> CODE_OK, access_token |-> None,
           has_expires_in |-> FALSE, expires_in |-> 0]}
    \cup {[kind |-> "reply", code |-> CODE_OK,
           access_token |-> FreshToken(t, exch[t]),
           has_expires_in |-> lifetime.given,
           expires_in |-> lifetime.expires_in]}

\* api.py:74, token_data.get("expires_in", "604800").
expires_in_of(reply) ==
    IF reply.has_expires_in THEN reply.expires_in ELSE DEFAULT_EXPIRES_IN

\* What an endpoint may answer: no answer at all, or a business code.
EndpointReplies ==
    {[kind |-> "transport", code |-> 0]}
    \cup {[kind |-> "reply", code |-> c] : c \in BusinessCodes}

\* A _request that retries on every AUTH_EXPIRED, whatever its flag.
should_retry_every_time(code, retry_on_auth_error) ==
    code = AUTH_EXPIRED

\* A _request that retries once on any business error.
should_retry_any_error(code, retry_on_auth_error) ==
    code # CODE_OK /\ retry_on_auth_error

\* A _request that never retries.
should_retry_never(code, retry_on_auth_error) ==
    FALSE

\* api.py:98, the condition under which _request calls itself again.
should_retry(code, retry_on_auth_error) ==
    code = AUTH_EXPIRED /\ retry_on_auth_error

\* A client that reports a transport failure as one more API-level error.
FinishWrappingTransport(t, r) ==
    /\ pc' = [pc EXCEPT ![t] = "done"]
    /\ outcome' = [outcome EXCEPT ![t] =
                      IF r.kind = "ConnectivityError"
                      THEN Raised("ServerRejected", 0)
                      ELSE r]

\* The caller's operation ends with result r.
Finish(t, r) ==
    /\ pc' = [pc EXCEPT ![t] = "done"]
    /\ outcome' = [outcome EXCEPT ![t] = r]

\* A _get_token that POSTs to /auth/token whether or not it has credentials.
PostCredentialsUnchecked(t) ==
    /\ pc' = [pc EXCEPT ![t] = "tk_wait"]
    /\ exch' = [exch EXCEPT ![t] = @ + 1]
    /\ outcome' = outcome

\* api.py:53-62: without credentials raise, otherwise POST them to /auth/token.
PostCredentials(t) ==
    IF ~creds
    THEN /\ Finish(t, Raised("AuthConfigMissing", 0))
         /\ exch' = exch
    ELSE /\ pc' = [pc EXCEPT ![t] = "tk_wait"]
         /\ exch' = [exch EXCEPT ![t] = @ + 1]
         /\ outcome' = outcome

\* A caller takes up one of the operations ops.
StartOp(t, ops) ==
    /\ pc[t] = "idle"
    /\ \E o \in ops :
         /\ op' = [op EXCEPT ![t] = o]
         /\ pc' = [pc EXCEPT ![t] = Entry(o)]
         /\ IF o = "save_cookie"
            THEN \E c \in Cookies, w \in Workspaces :
                    wr' = [wr EXCEPT ![t] = cookie_record(c, w, 0)]
            ELSE wr' = wr
    /\ UNCHANGED <<mem, files, now, creds, login, enc, lifetime, tokenExpiry, retry, tok, tmp, ttl,
                   fd, calls, resp, rejected, exch, refreshed, outcome,
                   probe>>

\* _get_token, api.py:42 and 46: the in-memory copy decides the path.
GtCheck(t) ==
    /\ pc[t] = "gt_check"
    /\ IF ~force_refresh(t) /\ mem # None
       THEN /\ pc' = [pc EXCEPT ![t] = "ret_mem"]
            /\ UNCHANGED <<exch, outcome>>
       ELSE IF ~force_refresh(t)
       THEN /\ pc' = [pc EXCEPT ![t] = "gt_cache"]
            /\ UNCHANGED <<exch, outcome>>
       ELSE PostCredentials(t)
    /\ UNCHANGED <<mem, files, now, creds, login, enc, lifetime, tokenExpiry, op, retry, tok, tmp,
                   ttl, wr, fd, calls, resp, rejected, refreshed, probe>>

\* _get_token, api.py:47-48: look the token up in the cache file.
GtCache(t) ==
    /\ pc[t] = "gt_cache"
    /\ LET cache == get_token_cache(files[TOKEN_CACHE_FILE], now) IN
         /\ IF cache.kind = "record"
            THEN /\ tmp' = [tmp EXCEPT ![t] = cache.token]
                 /\ pc' = [pc EXCEPT ![t] = "gt_set"]
                 /\ UNCHANGED <<exch, outcome>>
            ELSE /\ tmp' = tmp
                 /\ PostCredentials(t)
    /\ UNCHANGED <<mem, files, now, creds, login, enc, lifetime, tokenExpiry, op, retry, tok, ttl,
                   wr, fd, calls, resp, rejected, refreshed, probe>>

\* _get_token, api.py:49: self._token = cache["token"].
GtSet(t) ==
    /\ pc[t] = "gt_set"
    /\ mem' = tmp[t]
    /\ tmp' = [tmp EXCEPT ![t] = None]
    /\ pc' = [pc EXCEPT ![t] = "ret_cache"]
    /\ UNCHANGED <<files, now, creds, login, enc, lifetime, tokenExpiry, op, retry, tok, ttl, wr,
                   fd, calls, resp, rejected, exch, refreshed, outcome,
                   probe>>

\* _get_token, api.py:43, 50 and 78: return self._token. _request then POSTs
\* to the endpoint with that token (api.py:83-93).
Return(t) ==
    /\ pc[t] \in {"ret_mem", "ret_cache", "ret_new"}
    /\ tok' = [tok EXCEPT ![t] = mem]
    /\ IF op[t] = "execute"
       THEN /\ pc' = [pc EXCEPT ![t] = "rq_wait"]
            /\ calls' = [calls EXCEPT ![t] = @ + 1]
            /\ outcome' = outcome
       ELSE /\ Finish(t, Success)
            /\ calls' = calls
    /\ UNCHANGED <<mem, files, now, creds, login, enc, lifetime, tokenExpiry, op, retry, tmp, ttl,
                   wr, fd, resp, rejected, exch, refreshed, probe>>

\* _get_token, api.py:57-70 and 74-75: the token endpoint answers.
TkWait(t) ==
    /\ pc[t] = "tk_wait"
    /\ \E r \in TokenReplies(t) :
         IF r.kind = "transport"
         THEN /\ Finish(t, Raised("ConnectivityError", 0))
              /\ UNCHANGED <<mem, ttl, tokenExpiry>>
         ELSE IF r.code # CODE_OK
         THEN /\ Finish(t, Raised("TokenRejected", r.code))
              /\ UNCHANGED <<mem, ttl, tokenExpiry>>
         ELSE /\ mem' = r.access_token
              /\ ttl' = [ttl EXCEPT ![t] = expires_in_of(r)]
              /\ tokenExpiry' = IF r.access_token = None THEN tokenExpiry
                                ELSE [tokenExpiry EXCEPT ![r.access_token] =
                                         now + expires_in_of(r)]
              /\ pc' = [pc EXCEPT ![t] = "tk_chk"]
              /\ outcome' = outcome
    /\ UNCHANGED <<files, now, creds, login, enc, lifetime, op, retry, tok, tmp, wr, fd,
                   calls, resp, rejected, exch, refreshed, probe>>

\* A _get_token that saves whatever the token endpoint sent.
TkChkSavingAnyway(t) ==
    /\ pc[t] = "tk_chk"
    /\ pc' = [pc EXCEPT ![t] = "sv_open"]
    /\ UNCHANGED <<outcome, ttl>>
    /\ UNCHANGED <<mem, files, now, creds, login, enc, lifetime, tokenExpiry,
                   op, retry, tok, tmp, wr, fd, calls, resp, rejected, exch,
                   refreshed, probe>>

\* _get_token, api.py:71-72: if not self._token, raise.
TkChk(t) ==
    /\ pc[t] = "tk_chk"
    /\ IF mem = None
       THEN /\ Finish(t, Raised("NoAccessToken", 0))
            /\ ttl' = [ttl EXCEPT ![t] = 0]
       ELSE /\ pc' = [pc EXCEPT ![t] = "sv_open"]
            /\ UNCHANGED <<outcome, ttl>>
    /\ UNCHANGED <<mem, files, now, creds, login, enc, lifetime, tokenExpiry, op, retry, tok, tmp,
                   wr, fd, calls, resp, rejected, exch, refreshed, probe>>

\* _get_token, api.py:76, into save_token_cache, config.py:100-110: build the
\* record from self._token and open the cache file for writing.
SvOpen(t) ==
    /\ pc[t] = "sv_open"
    /\ wr' = [wr EXCEPT ![t] = token_cache_record(mem, ttl[t], now)]
    /\ ttl' = [ttl EXCEPT ![t] = 0]
    /\ OpenForWrite(t, TOKEN_CACHE_FILE)
    /\ pc' = [pc EXCEPT ![t] = "sv_write"]
    /\ UNCHANGED <<mem, now, creds, login, enc, lifetime, tokenExpiry, op, retry, tok, tmp, calls,
                   resp, rejected, exch, refreshed, outcome, probe>>

\* save_token_cache, config.py:110-111: json.dump and close.
SvWrite(t) ==
    /\ pc[t] = "sv_write"
    /\ WriteAndClose(t, TOKEN_CACHE_FILE)
    /\ wr' = [wr EXCEPT ![t] = Miss]
    /\ refreshed' = [refreshed EXCEPT ![t] = (resp[t] # <<>>)]
    /\ pc' = [pc EXCEPT ![t] = "ret_new"]
    /\ UNCHANGED <<mem, now, creds, login, enc, lifetime, tokenExpiry, op, retry, tok, tmp, ttl,
                   calls, resp, rejected, exch, outcome, probe>>

\* _request, api.py:85-109: the endpoint answers.
RqWait(t) ==
    /\ pc[t] = "rq_wait"
    /\ \E r \in EndpointReplies :
         IF r.kind = "transport"
         THEN /\ Finish(t, Raised("ConnectivityError", 0))
              /\ UNCHANGED <<resp, rejected>>
         ELSE /\ resp' = [resp EXCEPT ![t] = Append(@, r.code)]
              /\ IF should_retry(r.code, retry[t])
                 THEN /\ rejected' = [rejected EXCEPT ![t] = tok[t]]
                      /\ pc' = [pc EXCEPT ![t] = "cl_exists"]
                      /\ outcome' = outcome
                 ELSE IF r.code # CODE_OK
                 THEN /\ Finish(t, Raised("ServerRejected", r.code))
                      /\ rejected' = rejected
                 ELSE /\ Finish(t, Success)
                      /\ rejected' = rejected
    /\ UNCHANGED <<mem, files, now, creds, login, enc, lifetime, tokenExpiry, op, retry, tok, tmp,
                   ttl, wr, fd, calls, exch, refreshed, probe>>

\* clear_token_cache, config.py:116: if TOKEN_CACHE_FILE.exists().
ClExists(t) ==
    /\ pc[t] = "cl_exists"
    /\ pc' = [pc EXCEPT ![t] =
                 IF Exists(TOKEN_CACHE_FILE) THEN "cl_unlink" ELSE "cl_mem"]
    /\ UNCHANGED <<mem, files, now, creds, login, enc, lifetime, tokenExpiry, op, retry, tok, tmp,
                   ttl, wr, fd, calls, resp, rejected, exch, refreshed, outcome, probe>>

\* clear_token_cache, config.py:117: TOKEN_CACHE_FILE.unlink(), which raises
\* FileNotFoundError when the file has gone since the test.
ClUnlink(t) ==
    /\ pc[t] = "cl_unlink"
    /\ IF Exists(TOKEN_CACHE_FILE)
       THEN /\ Unlink(TOKEN_CACHE_FILE)
            /\ pc' = [pc EXCEPT ![t] = "cl_mem"]
            /\ outcome' = outcome
       ELSE /\ Finish(t, Raised("FileNotFoundError", 0))
            /\ UNCHANGED <<files, fd>>
    /\ UNCHANGED <<mem, now, creds, login, enc, lifetime, tokenExpiry, op, retry, tok, tmp, ttl,
                   wr, calls, resp, rejected, exch, refreshed, probe>>

\* _request, api.py:100-101: self._token = None, then the one recursive call
\* with retry_on_auth_error=False.
ClMem(t) ==
    /\ pc[t] = "cl_mem"
    /\ mem' = None
    /\ retry' = [retry EXCEPT ![t] = FALSE]
    /\ pc' = [pc EXCEPT ![t] = "gt_check"]
    /\ UNCHANGED <<files, now, creds, login, enc, lifetime, tokenExpiry, op, tok, tmp, ttl, wr, fd,
                   calls, resp, rejected, exch, refreshed, outcome,
                   probe>>

(* ------------------------- the cookie record --------------------------- *)

\* What a cookie-authenticated endpoint may answer (api.py:204-226).
CookieReplies ==
    {Raised("ConnectivityError", 0), Raised("CookieExpired", 401),
     Raised("ServerRejected", 500), Success}

\* save_cookie, config.py:120-131: build the record and open the cookie file
\* for writing.
CkOpen(t) ==
    /\ pc[t] = "ck_open"
    /\ wr' = [wr EXCEPT ![t] = cookie_record(@.cookie, @.workspace_id, now)]
    /\ OpenForWrite(t, COOKIE_FILE)
    /\ pc' = [pc EXCEPT ![t] = "ck_write"]
    /\ UNCHANGED <<mem, now, creds, login, enc, lifetime, tokenExpiry, op, retry, tok, tmp, ttl,
                   calls, resp, rejected, exch, refreshed, outcome,
                   probe>>

\* save_cookie, config.py:131-132: json.dump and close.
CkWrite(t) ==
    /\ pc[t] = "ck_write"
    /\ WriteAndClose(t, COOKIE_FILE)
    /\ wr' = [wr EXCEPT ![t] = Miss]
    /\ Finish(t, Success)
    /\ UNCHANGED <<mem, now, creds, login, enc, lifetime, tokenExpiry, op, retry, tok, tmp, ttl,
                   calls, resp, rejected, exch, refreshed, probe>>

\* clear_cookie, config.py:149: if COOKIE_FILE.exists().
CcExists(t) ==
    /\ pc[t] = "cc_exists"
    /\ IF Exists(COOKIE_FILE)
       THEN /\ pc' = [pc EXCEPT ![t] = "cc_unlink"]
            /\ outcome' = outcome
       ELSE Finish(t, Success)
    /\ UNCHANGED <<mem, files, now, creds, login, enc, lifetime, tokenExpiry, op, retry, tok, tmp,
                   ttl, wr, fd, calls, resp, rejected, exch, refreshed, probe>>

\* clear_cookie, config.py:150: COOKIE_FILE.unlink().
CcUnlink(t) ==
    /\ pc[t] = "cc_unlink"
    /\ IF Exists(COOKIE_FILE)
       THEN /\ Unlink(COOKIE_FILE)
            /\ Finish(t, Success)
       ELSE /\ Finish(t, Raised("FileNotFoundError", 0))
            /\ UNCHANGED <<files, fd>>
    /\ UNCHANGED <<mem, now, creds, login, enc, lifetime, tokenExpiry, op, retry, tok, tmp, ttl,
                   wr, calls, resp, rejected, exch, refreshed, probe>>

\* A command that uses the cookie (cli.py:62-67): get_cookie,
\* config.py:135-144, and without a cookie the command gives up.
CrRead(t) ==
    /\ pc[t] = "cr_read"
    /\ LET cookie_data == get_cookie(files[COOKIE_FILE]) IN
         /\ IF cookie_data.kind = "record"
            THEN /\ pc' = [pc EXCEPT ![t] = "cr_wait"]
                 /\ outcome' = outcome
            ELSE Finish(t, Raised("CookieMissing", 0))
    /\ UNCHANGED <<mem, files, now, creds, login, enc, lifetime, tokenExpiry, op, retry, tok, tmp,
                   ttl, wr, fd, calls, resp, rejected, exch, refreshed,
                   probe>>

\* The cookie-authenticated request, api.py:204-226: whatever the answer, the
\* client keeps no state of it.
CrWait(t) ==
    /\ pc[t] = "cr_wait"
    /\ \E r \in CookieReplies : Finish(t, r)
    /\ UNCHANGED <<mem, files, now, creds, login, enc, lifetime, tokenExpiry, op, retry, tok, tmp,
                   ttl, wr, fd, calls, resp, rejected, exch, refreshed, probe>>

\* cmd_login, cli.py:1399-1417: login_with_cas returns a cookie string, which
\* is then saved, or raises QzAPIError.
LgWait(t) ==
    /\ pc[t] = "lg_wait"
    /\ \/ /\ Finish(t, Raised("LoginFailed", 0))
          /\ wr' = wr
       \/ \E c \in Cookies, w \in Workspaces :
            /\ wr' = [wr EXCEPT ![t] = cookie_record(c, w, 0)]
            /\ pc' = [pc EXCEPT ![t] = "ck_open"]
            /\ outcome' = outcome
    /\ UNCHANGED <<mem, files, now, creds, login, enc, lifetime, tokenExpiry, op, retry, tok, tmp,
                   ttl, fd, calls, resp, rejected, exch, refreshed, probe>>

(* ----------------------- QzAPI.login_with_cas -------------------------- *)

\* api.py:743, the host of the platform.
TARGET_HOST == "qz.sii.edu.cn"

\* api.py:776, the host of the CAS identity provider.
IDP_HOST == "cas.sii.edu.cn"

\* api.py:754, the text that marks a URL of the Keycloak broker.
BROKER_MARK == "keycloak"

\* api.py:822, the text that marks a login page.
LOGIN_MARK == "login"

\* api.py:749, the name of the session cookie.
SESSION == "session"

\* A host of the broker, a host next to the platform's whose name ends like
\* it, and a host that has nothing to do with the chain.
BrokerHost == "keycloak.sii.edu.cn"

SiblingHost == "dev-qz.sii.edu.cn"

OtherHost == "other.example"

Hosts == {TARGET_HOST, BrokerHost, IDP_HOST, OtherHost}

\* Path and query of a URL.
UrlPaths == {"/", "/login", "/?service=cas.sii.edu.cn/login"}

Url(host, path) == [host |-> host, path |-> path]

Urls == [host : Hosts, path : UrlPaths]

\* self.base_url, by default https://qz.sii.edu.cn (config.py:12).
base_url == Url(TARGET_HOST, "/")

\* The marks that occur in a piece of a URL.
Mentions(text) ==
    CASE text = BrokerHost -> {BROKER_MARK}
      [] text = IDP_HOST -> {IDP_HOST}
      [] text = "keycloak.sii.edu.cnbroker" -> {BROKER_MARK}
      [] text = "cas.sii.edu.cnbroker" -> {IDP_HOST}
      [] text = "/login" -> {LOGIN_MARK}
      [] text = "/broker/cas/login" -> {LOGIN_MARK}
      [] text = "/cas/login" -> {LOGIN_MARK}
      [] text = "/?service=cas.sii.edu.cn/login" -> {IDP_HOST, LOGIN_MARK}
      [] OTHER -> {}

\* mark in url, Python's substring test on the whole URL.
InUrl(mark, url) == mark \in Mentions(url.host) \cup Mentions(url.path)

Cookie(domain, name, value) ==
    [domain |-> domain, name |-> name, value |-> value]

\* The cookies the hosts of the chain may set, in the order in which the jar
\* is iterated.
JarOrder ==
    <<Cookie(TARGET_HOST, SESSION, "s"),
      Cookie(TARGET_HOST, "lang", "zh"),
      Cookie(BrokerHost, "AUTH_SESSION_ID", "k"),
      Cookie(IDP_HOST, "JSESSIONID", "c"),
      Cookie(SiblingHost, "route", "r")>>

\* What one request, redirects included, may add to the jar.
SetCookies ==
    {{}, {JarOrder[1]}, {JarOrder[2]}, {JarOrder[1], JarOrder[2]},
     {JarOrder[3], JarOrder[4]}, {JarOrder[5]}}

\* "qz.sii.edu.cn" in cookie.domain (api.py:747, 843, 851), Python's
\* substring test.
in_domain(cookie) == cookie.domain \in {TARGET_HOST, SiblingHost}

RECURSIVE collect(_, _, _)
\* for cookie in session.cookies: if "qz.sii.edu.cn" in cookie.domain:
\* all_cookies[cookie.name] = cookie.value, from the i-th cookie on. The dict
\* is a sequence of <<name, value>> in insertion order.
collect(jar, all_cookies, i) ==
    IF i > Len(JarOrder) THEN all_cookies
    ELSE LET cookie == JarOrder[i]
             at == {k \in 1..Len(all_cookies) :
                       all_cookies[k][1] = cookie.name}
         IN IF cookie \notin jar \/ ~in_domain(cookie)
            THEN collect(jar, all_cookies, i + 1)
            ELSE IF at = {}
            THEN collect(jar,
                         Append(all_cookies, <<cookie.name, cookie.value>>),
                         i + 1)
            ELSE collect(jar,
                         [k \in 1..Len(all_cookies) |->
                             IF k \in at THEN <<cookie.name, cookie.value>>
                             ELSE all_cookies[k]],
                         i + 1)

\* A test that finds every name.
has_key_always(all_cookies, name) == TRUE

\* name in all_cookies.
has_key(all_cookies, name) ==
    \E k \in 1..Len(all_cookies) : all_cookies[k][1] = name

\* The end of the path of the broker's CAS entry (api.py:757).
ENTRY == "broker/cas/login"

\* What a page may have for the value of "loginUrl", in pieces: nothing,
\* the entry as an absolute URL, as a path from the root and as a path that
\* does not start at the root, the first two also with the slashes before the
\* entry written \/, and a path with every slash written \/.
LoginUrlTexts ==
    {<<>>,
     <<"https:", "//", BrokerHost, "/", ENTRY>>,
     <<"https:", "\\/\\/", BrokerHost, "\\/", ENTRY>>,
     <<"/", ENTRY>>,
     <<"\\/", ENTRY>>,
     <<ENTRY>>,
     <<"\\/", "broker\\/cas\\/login">>}

\* api.py:757, re.search(r'"loginUrl":\s*"([^"]*broker/cas/login[^"]*)"'):
\* the value matches when broker/cas/login stands in it as it is.
cas_url_match(text) == text # <<>> /\ text[Len(text)] = ENTRY

\* api.py:761, replace("\\/", "/").
unescape(text) ==
    [i \in 1..Len(text) |->
        CASE text[i] = "\\/" -> "/"
          [] text[i] = "\\/\\/" -> "//"
          [] OTHER -> text[i]]

\* The host a URL names when broker/cas/login follows the host without a
\* slash: it runs on to the first slash.
RunOn(host) ==
    CASE host = TARGET_HOST -> "qz.sii.edu.cnbroker"
      [] host = BrokerHost -> "keycloak.sii.edu.cnbroker"
      [] host = IDP_HOST -> "cas.sii.edu.cnbroker"
      [] host = OtherHost -> "other.examplebroker"

\* Host and path of an absolute URL given in pieces, as requests reads it.
parse(text) ==
    IF text[4] = "/" THEN Url(text[3], "/broker/cas/login")
    ELSE Url(RunOn(text[3]), "/cas/login")

\* The page of a response: the value of the broker's loginUrl, the hidden
\* fields lt and execution, and the texts of a rejected login.
Page(loginUrl, lt, execution, wrong, captcha) ==
    [loginUrl |-> loginUrl, lt |-> lt, execution |-> execution,
     wrong |-> wrong, captcha |-> captcha]

GetPages ==
    {Page(l, lt, lt, FALSE, FALSE) : l \in LoginUrlTexts, lt \in BOOLEAN}

\* The pages where the flow does not look for a loginUrl.
FormPages == {Page(<<>>, lt, lt, FALSE, FALSE) : lt \in BOOLEAN}

PostPages ==
    {Page(<<>>, FALSE, FALSE, w, c) : w \in BOOLEAN, c \in BOOLEAN}

NoPage == Page(<<>>, FALSE, FALSE, FALSE, FALSE)

\* requests.RequestException instead of a response.
TransportFailure ==
    [ok |-> FALSE, url |-> Url("", ""), page |-> NoPage, cookies |-> {}]

\* What may come back for a request: a response that ended on one of urls
\* with one of pages, or a transport failure.
Replies(urls, pages) ==
    {[ok |-> TRUE, url |-> u, page |-> p, cookies |-> c] :
        u \in urls, p \in pages, c \in SetCookies}
    \cup {TransportFailure}

\* A request the flow sends: requests follow redirects on their own.
Get(url) == [method |-> "GET", url |-> url, form |-> {}]

\* api.py:787-799, the form with the encrypted password and, when the page
\* has them, lt and execution.
login_data(page) ==
    {"username", "password", "_eventId", "submit", "loginType", "encrypted"}
    \cup (IF page.lt THEN {"lt"} ELSE {})
    \cup (IF page.execution THEN {"execution"} ELSE {})

Post(url, form) == [method |-> "POST", url |-> url, form |-> form]

\* api.py:759-765, the URL of the broker's CAS entry: the matched value
\* with \/ replaced, and, unless it starts with http, scheme and host of the
\* current URL put in front of it.
cas_broker_url(page, current_url) ==
    LET text == unescape(page.loginUrl) IN
      IF text[1] = "https:" THEN parse(text)
      ELSE parse(<<"https:", "//", current_url.host>> \o text)

\* A classification that looks for the CAPTCHA text first.
login_rejection_captcha_first(page) ==
    IF page.captcha THEN "CaptchaRequired"
    ELSE IF page.wrong THEN "BadCredentials"
    ELSE "UnknownLoginRejection"

\* api.py:824-828, the error raised for a page that is still the login page.
login_rejection(page) ==
    IF page.wrong THEN "BadCredentials"
    ELSE IF page.captcha THEN "CaptchaRequired"
    ELSE "UnknownLoginRejection"

\* No login_with_cas has been called.
NoLogin ==
    [pc |-> "idle", jar |-> {}, reqs |-> <<>>,
     last |-> [ok |-> TRUE, url |-> Url("", ""), page |-> NoPage,
               cookies |-> {}],
     all_cookies |-> <<>>, result |-> [kind |-> "running", cookie_str |-> <<>>]]

\* What the flow keeps of a response: resp.url and resp.text; the cookies
\* it set are in the jar.
Resp(r) == [r EXCEPT !.cookies = {}]

\* A failure that is noted and leaves the flow where it was, waiting for
\* the same response again.
SsoFailAndWait(kind, r, j) ==
    login' = [login EXCEPT !.last = Resp(r), !.jar = j,
                           !.result = [kind |-> kind, cookie_str |-> <<>>]]

\* A failure after which the flow starts over with a new GET of the platform.
SsoFailAndRetry(kind, r, j) ==
    login' = [login EXCEPT !.pc = "get_root", !.last = Resp(r), !.jar = j,
                           !.reqs = Append(@, Get(base_url)),
                           !.result = [kind |-> kind, cookie_str |-> <<>>]]

\* raise QzAPIError: the flow ends, having taken reply r and jar j.
SsoFail(kind, r, j) ==
    login' = [login EXCEPT !.pc = "done", !.last = Resp(r), !.jar = j,
                           !.result = [kind |-> kind, cookie_str |-> <<>>]]

\* return cookie_str, "; ".join of k=v over the dict (api.py:750, 860).
SsoReturn(cookies, r, j) ==
    login' = [login EXCEPT !.pc = "done", !.last = Resp(r), !.jar = j,
                           !.all_cookies = cookies,
                           !.result = [kind |-> "Success",
                                       cookie_str |-> cookies]]

\* The flow sends request q and waits for its response at position p.
SsoSend(q, p, r, j) ==
    login' = [login EXCEPT !.pc = p, !.last = Resp(r), !.jar = j,
                           !.reqs = Append(@, q)]

\* api.py:775-815: Step 3, unless the current URL names the CAS host give
\* up, otherwise POST the form to it.
SsoAtIdentityProvider(r, j) ==
    IF ~InUrl(IDP_HOST, r.url)
    THEN SsoFail("SSOPageNotReached", r, j)
    ELSE SsoSend(Post(r.url, login_data(r.page)), "post_form", r, j)

\* api.py:839-857: collect the platform's cookies; without a session cookie
\* GET the platform once more.
SsoCollect(r, j) ==
    LET all_cookies == collect(j, <<>>, 1) IN
      IF all_cookies = <<>> \/ ~has_key(all_cookies, SESSION)
      THEN login' = [login EXCEPT !.pc = "get_recheck", !.last = Resp(r), !.jar = j,
                                  !.all_cookies = all_cookies,
                                  !.reqs = Append(@, Get(base_url))]
      ELSE SsoReturn(all_cookies, r, j)

\* api.py:723-735: a fresh session, and the GET of the platform.
SsoStart ==
    /\ login.pc = "idle"
    /\ login' = [login EXCEPT !.pc = "get_root",
                              !.reqs = Append(@, Get(base_url))]
    /\ UNCHANGED clientVars

\* api.py:735-773: the first GET has ended. On the platform with a session
\* cookie return it; on a Keycloak URL look for the CAS entry and GET it;
\* otherwise go on to Step 3.
SsoLanded ==
    /\ login.pc = "get_root"
    /\ \E r \in Replies(Urls, GetPages) :
         LET j == login.jar \cup r.cookies
             qz_cookies == collect(j, <<>>, 1)
         IN IF ~r.ok
            THEN SsoFail("ConnectivityError", r, j)
            ELSE IF r.url.host = TARGET_HOST /\ has_key(qz_cookies, SESSION)
            THEN SsoReturn(qz_cookies, r, j)
            ELSE IF InUrl(BROKER_MARK, r.url)
            THEN IF cas_url_match(r.page.loginUrl)
                 THEN SsoSend(Get(cas_broker_url(r.page, r.url)),
                              "get_broker", r, j)
                 ELSE SsoFail("BrokerEntryNotFound", r, j)
            ELSE SsoAtIdentityProvider(r, j)
    /\ UNCHANGED clientVars

\* api.py:768-771: the GET of the broker's CAS entry has ended.
SsoBrokerReply ==
    /\ login.pc = "get_broker"
    /\ \E r \in Replies(Urls, FormPages) :
         LET j == login.jar \cup r.cookies IN
           IF ~r.ok
           THEN SsoFail("ConnectivityError", r, j)
           ELSE SsoAtIdentityProvider(r, j)
    /\ UNCHANGED clientVars

\* api.py:808-837: the POST of the form has ended. Still on a CAS login URL
\* is a rejection; away from the platform's host GET the platform first.
SsoSubmitted ==
    /\ login.pc = "post_form"
    /\ \E r \in Replies(Urls, PostPages) :
         LET j == login.jar \cup r.cookies IN
           IF ~r.ok
           THEN SsoFail("ConnectivityError", r, j)
           ELSE IF InUrl(IDP_HOST, r.url) /\ InUrl(LOGIN_MARK, r.url)
           THEN SsoFail(login_rejection(r.page), r, j)
           ELSE IF r.url.host # TARGET_HOST
           THEN SsoSend(Get(base_url), "get_forced", r, j)
           ELSE SsoCollect(r, j)
    /\ UNCHANGED clientVars

\* api.py:835-837: the GET that completes the redirects has ended.
SsoForcedReply ==
    /\ login.pc = "get_forced"
    /\ \E r \in Replies({base_url}, {NoPage}) :
         LET j == login.jar \cup r.cookies IN
           IF ~r.ok
           THEN SsoFail("ConnectivityError", r, j)
           ELSE SsoCollect(r, j)
    /\ UNCHANGED clientVars

\* api.py:849-862: the second GET of the platform has ended, or has raised
\* and the exception was dropped; without a session cookie give up.
SsoRecheckReply ==
    /\ login.pc = "get_recheck"
    /\ \E r \in Replies({base_url}, {NoPage}) :
         LET j == login.jar \cup r.cookies
             all_cookies == IF r.ok THEN collect(j, login.all_cookies, 1)
                            ELSE login.all_cookies
         IN IF all_cookies = <<>> \/ ~has_key(all_cookies, SESSION)
            THEN login' = [login EXCEPT
                              !.pc = "done", !.last = Resp(r), !.jar = j,
                              !.all_cookies = all_cookies,
                              !.result = [kind |-> "SessionNotEstablished",
                                          cookie_str |-> <<>>]]
            ELSE SsoReturn(all_cookies, r, j)
    /\ UNCHANGED clientVars

(* --------------------------- qzcli/crypto.py --------------------------- *)

\* crypto.py:79, the lengths of a string that is taken for a ciphertext.
MIN_ENCRYPTED_LEN == 254

MAX_ENCRYPTED_LEN == 256

\* The hex digits in the order of their values, as format(number, 'x') writes
\* them.
HexChars ==
    <<"0", "1", "2", "3", "4", "5", "6", "7", "8", "9",
      "a", "b", "c", "d", "e", "f">>

UpperHexChars == <<"A", "B", "C", "D", "E", "F">>

\* crypto.py:80, '0123456789abcdefABCDEF'.
HexDigits ==
    {HexChars[i] : i \in 1..16} \cup {UpperHexChars[i] : i \in 1..6}

\* The value int(c, 16) gives a hex digit.
HexValue(c) ==
    IF \E i \in 1..16 : HexChars[i] = c
    THEN (CHOOSE i \in 1..16 : HexChars[i] = c) - 1
    ELSE (CHOOSE i \in 1..6 : UpperHexChars[i] = c) + 9

\* ord(c) for the characters passwords are made of here.
Ord(c) ==
    CASE c = " " -> 32
      [] c = "@" -> 64
      [] c = "G" -> 71
      [] c = "g" -> 103
      [] c = "z" -> 122
      [] c = "ÿ" -> 255
      [] c \in {HexChars[i] : i \in 1..10} -> 48 + HexValue(c)
      [] c \in {HexChars[i] : i \in 11..16} -> 87 + HexValue(c)
      [] c \in {UpperHexChars[i] : i \in 1..6} -> 55 + HexValue(c)

RECURSIVE int16(_, _)
\* int(hex_string, 16), digit by digit.
int16(hex_string, value) ==
    IF hex_string = <<>> THEN value
    ELSE int16(Tail(hex_string), 16 * value + HexValue(Head(hex_string)))

RECURSIVE strip_zeros(_)
\* A hex numeral without its leading zeros; zero is the empty numeral.
strip_zeros(digits) ==
    IF digits # <<>> /\ Head(digits) = "0" THEN strip_zeros(Tail(digits))
    ELSE digits

\* crypto.py:1-5, hex2int. A Python integer has no width; here it is kept as
\* its hex numeral in lower case without leading zeros, so that a modulus of
\* 1024 bits is an integer like any other. The keys have no blanks around
\* them for strip() to remove.
hex2int(hex_string) ==
    LET digits == IF Len(hex_string) >= 2 /\ hex_string[1] = "0"
                       /\ hex_string[2] \in {"x", "X"}
                  THEN SubSeq(hex_string, 3, Len(hex_string))
                  ELSE hex_string
    IN strip_zeros([i \in 1..Len(digits) |-> HexChars[HexValue(digits[i]) + 1]])

\* An integer that fits the integers of the checker, from its hex numeral.
as_int(n) == int16(n, 0)

RECURSIVE hex_digits(_)
\* format(number, 'x') of a positive number.
hex_digits(number) ==
    IF number = 0 THEN <<>>
    ELSE Append(hex_digits(number \div 16), HexChars[(number % 16) + 1])

\* crypto.py:8-12, int2hex with min_length 0.
int2hex(number) ==
    IF number = 0 THEN <<"0">> ELSE hex_digits(number)

RECURSIVE digit_bits(_)
\* The number of bits of a hex digit's value.
digit_bits(v) == IF v = 0 THEN 0 ELSE 1 + digit_bits(v \div 2)

\* int.bit_length(): four bits for every hex digit after the first, and the
\* bits of the first.
bit_length(n) ==
    IF n = <<>> THEN 0 ELSE 4 * (Len(n) - 1) + digit_bits(HexValue(n[1]))

\* A _bi_high_index that rounds the bit length down to whole 16-bit digits.
bi_high_index_floor(n) ==
    IF n = <<>> THEN 0 ELSE bit_length(n) \div 16 - 1

\* crypto.py:21-25, _bi_high_index.
bi_high_index(n) ==
    IF n = <<>> THEN 0 ELSE (bit_length(n) + 15) \div 16 - 1

\* crypto.py:16-19, CustomRSA.__init__.
CustomRSA(modulus_hex, exponent_hex) ==
    [modulus |-> hex2int(modulus_hex),
     exponent |-> hex2int(exponent_hex),
     chunk_size |-> 2 * bi_high_index(hex2int(modulus_hex))]

RECURSIVE mul_mod(_, _, _)
\* (a * b) % mod, by doubling, so that no intermediate value leaves 32 bits.
mul_mod(a, b, mod) ==
    IF a = 0 \/ b = 0 THEN 0
    ELSE LET half == mul_mod(a, b \div 2, mod)
             twice == (half + half) % mod
         IN IF b % 2 = 1 THEN (twice + a) % mod ELSE twice

RECURSIVE pow_mod(_, _, _)
\* crypto.py:27-28, pow(base, exp, mod).
pow_mod(base, exp, mod) ==
    IF exp = 0 THEN 1 % mod
    ELSE LET half == pow_mod(base, exp \div 2, mod)
             square == mul_mod(half, half, mod)
         IN IF exp % 2 = 1 THEN mul_mod(square, base % mod, mod) ELSE square

RECURSIVE shift_left(_, _)
\* value << bits.
shift_left(value, bits) ==
    IF bits = 0 THEN value ELSE shift_left(2 * value, bits - 1)

\* byte_array[k] if k < len(byte_array) else 0, k counted from 0.
byte_at(byte_array, k) ==
    IF k < Len(byte_array) THEN byte_array[k + 1] ELSE 0

RECURSIVE big(_)
\* A block is a Python integer and can be as wide as the modulus; it is kept
\* as its digits in base 2^16, the least first, with no zero digit at the
\* top. This is the one of a number that fits the integers of the checker.
big(number) ==
    IF number = 0 THEN <<>>
    ELSE <<number % 65536>> \o big(number \div 65536)

RECURSIVE small(_)
\* The number of which n is the digits, when it fits.
small(n) == IF n = <<>> THEN 0 ELSE Head(n) + 65536 * small(Tail(n))

\* n << (16 * digits).
shift_digits(n, digits) ==
    IF n = <<>> THEN <<>> ELSE [i \in 1..digits |-> 0] \o n

RECURSIVE add_carry(_, _, _)
\* a + b + carry.
add_carry(a, b, carry) ==
    IF a = <<>> /\ b = <<>>
    THEN big(carry)
    ELSE LET total == (IF a = <<>> THEN 0 ELSE Head(a))
                        + (IF b = <<>> THEN 0 ELSE Head(b)) + carry
         IN <<total % 65536>>
              \o add_carry(IF a = <<>> THEN <<>> ELSE Tail(a),
                           IF b = <<>> THEN <<>> ELSE Tail(b),
                           total \div 65536)

RECURSIVE encode_digits_unshifted(_, _, _, _)
\* A loop that adds every digit to the block without shifting it.
encode_digits_unshifted(byte_array, k, stop, digit_index) ==
    IF k >= stop THEN <<>>
    ELSE add_carry(big(byte_at(byte_array, k)
                         + shift_left(byte_at(byte_array, k + 1), 8)),
                   encode_digits_unshifted(byte_array, k + 2, stop,
                                           digit_index + 1),
                   0)

RECURSIVE encode_digits(_, _, _, _)
\* crypto.py:34-40, the loop of _encode_block from index k on.
encode_digits(byte_array, k, stop, digit_index) ==
    IF k >= stop THEN <<>>
    ELSE add_carry(shift_digits(big(byte_at(byte_array, k)
                                      + shift_left(byte_at(byte_array, k + 1),
                                                   8)),
                                digit_index),
                   encode_digits(byte_array, k + 2, stop, digit_index + 1),
                   0)

\* crypto.py:30-42, _encode_block.
encode_block(byte_array, start, chunk_size) ==
    encode_digits(byte_array, start, start + chunk_size, 0)

\* crypto.py:50-51, the zero bytes appended to byte_array.
padding(length, chunk_size) ==
    [i \in 1..((chunk_size - (length % chunk_size)) % chunk_size) |-> 0]

RECURSIVE join_range(_, _, _, _)
\* sep.join(parts[lo..hi]), halving the range so that the nesting stays
\* shallow for a long list.
join_range(parts, sep, lo, hi) ==
    IF lo > hi THEN <<>>
    ELSE IF lo = hi THEN parts[lo]
    ELSE LET mid == (lo + hi) \div 2
         IN join_range(parts, sep, lo, mid) \o <<sep>>
              \o join_range(parts, sep, mid + 1, hi)

\* sep.join(parts).
join(parts, sep) == join_range(parts, sep, 1, Len(parts))

\* crypto.py:48-56, the block integers encrypt_string builds from a
\* plaintext that is not empty.
encoded_blocks(rsa, plaintext) ==
    LET byte_array ==
            [i \in 1..Len(plaintext) |-> Ord(plaintext[i])]
              \o padding(Len(plaintext), rsa.chunk_size)
    IN [b \in 1..(Len(byte_array) \div rsa.chunk_size) |->
          encode_block(byte_array, (b - 1) * rsa.chunk_size, rsa.chunk_size)]

\* crypto.py:44-61, encrypt_string.
encrypt_string(rsa, plaintext) ==
    IF plaintext = <<>> THEN <<>>
    ELSE LET blocks == encoded_blocks(rsa, plaintext)
             result_parts ==
                 [b \in 1..Len(blocks) |->
                     int2hex(pow_mod(small(blocks[b]), as_int(rsa.exponent),
                                     as_int(rsa.modulus)))]
         IN join(result_parts, " ")

\* str.replace(old, '') for a one-character old.
remove(text, old) == SelectSeq(text, LAMBDA c : c # old)

\* A test that takes every string of hex digits for a ciphertext, whatever
\* its length.
is_encrypted_any_length(password) ==
    \A i \in 1..Len(password) : password[i] \in HexDigits

\* crypto.py:78-80, is_encrypted.
is_encrypted(password) ==
    /\ MIN_ENCRYPTED_LEN <= Len(password)
    /\ Len(password) <= MAX_ENCRYPTED_LEN
    /\ \A i \in 1..Len(password) : password[i] \in HexDigits

\* crypto.py:71-76, PasswordEncryptor.encrypt.
encrypt(rsa, password) ==
    IF is_encrypted(password) THEN password
    ELSE remove(encrypt_string(rsa, password), " ")

\* A key small enough to compute with: modulus 257 * 263 = 0x10807, of 17
\* bits, and the exponent of PasswordEncryptor (crypto.py:65).
TestModulus == <<"0", "1", "0", "8", "0", "7">>

EXPONENT == <<"0", "1", "0", "0", "0", "1">>

\* crypto.py:66, the modulus of PasswordEncryptor, of 1024 bits.
MODULUS ==
    <<"0", "0", "8", "a", "e", "d", "7", "e", "0", "5", "7", "f",
      "e", "8", "f", "1", "4", "c", "7", "3", "5", "5", "0", "b",
      "0", "e", "6", "4", "6", "7", "b", "0", "2", "3", "6", "1",
      "6", "d", "d", "c", "8", "f", "a", "9", "1", "8", "4", "6",
      "d", "2", "6", "1", "3", "c", "d", "b", "7", "f", "7", "6",
      "2", "1", "e", "3", "c", "a", "d", "a", "4", "c", "d", "5",
      "d", "8", "1", "2", "d", "6", "2", "7", "a", "f", "6", "b",
      "8", "7", "7", "2", "7", "a", "d", "e", "4", "e", "2", "6",
      "d", "2", "6", "2", "0", "8", "b", "7", "3", "2", "6", "8",
      "1", "5", "9", "4", "1", "4", "9", "2", "b", "2", "2", "0",
      "4", "c", "3", "1", "6", "7", "a", "b", "2", "d", "5", "3",
      "d", "f", "1", "e", "3", "a", "2", "c", "9", "1", "5", "3",
      "b", "d", "b", "7", "c", "8", "c", "2", "e", "9", "6", "8",
      "d", "f", "9", "7", "a", "5", "e", "7", "e", "0", "1", "c",
      "c", "4", "1", "0", "f", "9", "2", "c", "4", "c", "2", "c",
      "2", "f", "b", "a", "5", "2", "9", "b", "3", "e", "e", "9",
      "8", "8", "e", "b", "c", "1", "f", "c", "a", "9", "9", "f",
      "f", "5", "1", "1", "9", "e", "0", "3", "6", "d", "7", "3",
      "2", "c", "3", "6", "8", "a", "c", "f", "8", "b", "e", "b",
      "a", "0", "1", "a", "a", "2", "f", "d", "a", "f", "a", "4",
      "5", "b", "2", "1", "e", "4", "d", "e", "4", "9", "2", "8",
      "d", "0", "d", "4", "0", "3">>

TestKey == CustomRSA(TestModulus, EXPONENT)

\* The passwords tried: every string of at most MaxShort characters, and
\* around the lengths of a ciphertext, strings of one hex digit repeated,
\* with or without one other character at either end.
PasswordChars == {"0", "a", "F", "g", " ", "ÿ"}

Repeated(c, n) == [i \in 1..n |-> c]

ShortPasswords ==
    UNION {[1..n -> PasswordChars] : n \in 0..MaxShort}

Passwords ==
    ShortPasswords \cup
    (UNION {{Repeated(c, n)}
              \cup {[Repeated(c, n) EXCEPT ![1] = x] :
                       x \in {"g", "G", " ", "@", "z", "9", "ÿ"}}
              \cup {[Repeated(c, n) EXCEPT ![n] = x] :
                       x \in {"g", "G", " ", "A"}} :
            c \in {"0", "a", "F"},
            n \in (MIN_ENCRYPTED_LEN - Margin)..(MAX_ENCRYPTED_LEN + Margin)})

\* The moduli a key is built from: every numeral of at most MaxHexLen of the
\* digits 0, 1, 8 and f, longer ones around whole numbers of 16-bit digits,
\* some of them written with the 0x prefix, and the one of PasswordEncryptor.
Moduli ==
    UNION {[1..n -> {"0", "1", "8", "f"}] : n \in 1..MaxHexLen}
      \cup {<<c>> \o Repeated(f, n) :
               c \in {"1", "7", "8", "f"}, f \in {"0", "f"},
               n \in {3, 4, 7, 8, 11, 12, 15, 16, 255}}
      \cup {<<"0", x>> \o m : x \in {"x", "X"}, m \in {TestModulus, MODULUS}}
      \cup {TestModulus, MODULUS}

\* Moduli of more than 16 bits: the least one, the test key's, the ends of
\* the sizes that make chunk_size 2, 4 and 6, and the one of
\* PasswordEncryptor.
EncodingModuli ==
    {<<"1">> \o Repeated("0", 4), TestModulus, Repeated("f", 8),
     <<"1">> \o Repeated("0", 8), Repeated("f", 12),
     <<"1">> \o Repeated("0", 12), <<"7">> \o Repeated("f", 15), MODULUS}

\* blocks is what the encoder makes of password when it is applied on its
\* own.
NoEnc ==
    [rsa |-> [modulus |-> <<>>, exponent |-> <<>>, chunk_size |-> 0],
     built |-> FALSE, password |-> <<>>, given |-> FALSE,
     out |-> <<>>, returned |-> FALSE, blocks |-> <<>>, encoded |-> FALSE]

\* crypto.py:68-69, PasswordEncryptor.__init__, for a modulus among moduli.
KeyBuilt(moduli) ==
    /\ ~enc.built
    /\ \E modulus_hex \in moduli :
          enc' = [enc EXCEPT !.rsa = CustomRSA(modulus_hex, EXPONENT),
                             !.built = TRUE]
    /\ UNCHANGED <<mem, files, now, creds, login, lifetime, tokenExpiry, pc,
                   op, retry, tok, tmp, ttl, wr, fd, calls, resp, rejected,
                   exch, refreshed, outcome, probe>>

\* cmd_login has a password (cli.py:1386-1390) and login_with_cas is about to
\* encrypt it.
EncGiven ==
    /\ enc.built /\ ~enc.given
    /\ \E password \in Passwords :
          enc' = [enc EXCEPT !.password = password, !.given = TRUE]
    /\ UNCHANGED <<mem, files, now, creds, login, lifetime, tokenExpiry, pc,
                   op, retry, tok, tmp, ttl, wr, fd, calls, resp, rejected,
                   exch, refreshed, outcome, probe>>

\* crypto.py:71-76, PasswordEncryptor.encrypt, called by encrypt_password
\* (crypto.py:83-85).
EncReturn ==
    /\ enc.given /\ ~enc.returned
    /\ enc' = [enc EXCEPT !.out = encrypt(enc.rsa, enc.password),
                          !.returned = TRUE]
    /\ UNCHANGED <<mem, files, now, creds, login, lifetime, tokenExpiry, pc,
                   op, retry, tok, tmp, ttl, wr, fd, calls, resp, rejected,
                   exch, refreshed, outcome, probe>>

\* crypto.py:48-56 with _encode_block (crypto.py:30-42): the encoder of
\* encrypt_string applied to a plaintext that is not empty, without the
\* exponentiation.
EncEncoded ==
    /\ enc.given /\ ~enc.encoded
    /\ enc.password # <<>>
    /\ enc' = [enc EXCEPT !.blocks = encoded_blocks(enc.rsa, enc.password),
                          !.encoded = TRUE]
    /\ UNCHANGED <<mem, files, now, creds, login, lifetime, tokenExpiry, pc,
                   op, retry, tok, tmp, ttl, wr, fd, calls, resp, rejected,
                   exch, refreshed, outcome, probe>>

(* --------------------------- the environment --------------------------- *)

\* The process is interrupted while a caller has a file open for writing:
\* the file keeps whatever had reached it.
Interrupt(t) ==
    /\ pc[t] \in {"sv_write", "ck_write"}
    /\ fd' = [fd EXCEPT ![t] = "closed"]
    /\ wr' = [wr EXCEPT ![t] = Miss]
    /\ Finish(t, Raised("Interrupted", 0))
    /\ UNCHANGED <<mem, files, now, creds, login, enc, lifetime, tokenExpiry, op, retry, tok, tmp,
                   ttl, calls, resp, rejected, exch, refreshed, probe>>

\* A second passes.
Tick ==
    /\ now < MaxNow
    /\ now' = now + 1
    /\ UNCHANGED <<mem, files, creds, login, enc, lifetime, tokenExpiry, pc, op, retry, tok, tmp,
                   ttl, wr, fd, calls, resp, rejected, exch, refreshed, outcome, probe>>

(* -------------------------- the specification -------------------------- *)

\* Token records an earlier run may have left behind.
PriorTokenFiles ==
    {Absent, TokenRecord(PriorToken, GRACE + 1)}

PriorCookieFiles ==
    {Absent, CookieRecord("session=a", "", 0)}

\* Nothing saved, cleared or read yet.
NoProbe == [record |-> "unknown", token |-> None, t0 |-> 0, expires_in |-> 0,
            read |-> FALSE, got |-> Miss, at |-> 0]

\* A client that was just constructed (api.py:29-38), over the files an
\* earlier run left.
Init ==
    /\ mem = None
    /\ \E tf \in PriorTokenFiles, cf \in PriorCookieFiles :
         /\ files = [p \in Paths |-> IF p = TOKEN_CACHE_FILE THEN tf ELSE cf]
         /\ tokenExpiry = [x \in Tokens |->
                             IF x = PriorToken /\ tf.kind = "record"
                             THEN tf.expires_at ELSE 0]
    /\ now = 0
    /\ creds \in BOOLEAN
    /\ lifetime \in ServerLifetimes
    /\ pc = [t \in Callers |-> "idle"]
    /\ op = [t \in Callers |-> "none"]
    /\ retry = [t \in Callers |-> TRUE]
    /\ tok = [t \in Callers |-> None]
    /\ tmp = [t \in Callers |-> None]
    /\ ttl = [t \in Callers |-> 0]
    /\ wr = [t \in Callers |-> Miss]
    /\ fd = [t \in Callers |-> "closed"]
    /\ calls = [t \in Callers |-> 0]
    /\ resp = [t \in Callers |-> <<>>]
    /\ rejected = [t \in Callers |-> None]
    /\ exch = [t \in Callers |-> 0]
    /\ refreshed = [t \in Callers |-> FALSE]
    /\ outcome = [t \in Callers |-> Running]
    /\ probe = NoProbe
    /\ login = NoLogin
    /\ enc = NoEnc

\* The steps of _get_token and _request.
BearerStep(t) ==
    \/ GtCheck(t)
    \/ GtCache(t)
    \/ GtSet(t)
    \/ Return(t)
    \/ TkWait(t)
    \/ TkChk(t)
    \/ SvOpen(t)
    \/ SvWrite(t)
    \/ RqWait(t)
    \/ ClExists(t)
    \/ ClUnlink(t)
    \/ ClMem(t)

\* The steps of the operations on the cookie record.
CookieStep(t) ==
    \/ CkOpen(t)
    \/ CkWrite(t)
    \/ CcExists(t)
    \/ CcUnlink(t)
    \/ CrRead(t)
    \/ CrWait(t)
    \/ LgWait(t)

StartAny(t) == StartOp(t, BearerOps \cup CookieOps)

\* Callers that share the client and the files, each running one operation.
Next ==
    \E t \in Callers :
        \/ StartAny(t)
        \/ BearerStep(t)
        \/ CookieStep(t)
        \/ Interrupt(t)

Spec == Init /\ [][Next]_vars

\* The client used by one caller only: no two steps of different callers ever
\* interleave.
SoloCaller == CHOOSE t \in Callers : \A u \in Callers : t <= u

NextSolo ==
    \/ StartAny(SoloCaller)
    \/ BearerStep(SoloCaller)
    \/ CookieStep(SoloCaller)
    \/ Interrupt(SoloCaller)

SpecSolo == Init /\ [][NextSolo]_vars

\* Callers running the bearer-token operations while the clock runs.
NextClock ==
    \/ \E t \in Callers :
          \/ StartOp(t, BearerOps)
          \/ BearerStep(t)
          \/ Interrupt(t)
    \/ Tick

SpecClock == Init /\ [][NextClock]_vars

\* No caller other than t is inside an operation.
Quiet(t) == \A u \in Callers \ {t} : pc[u] \in {"idle", "done"}

\* The client used for one operation after the other, while the clock runs:
\* a call starts only when the one before it has returned or raised.
NextSerial ==
    \/ \E t \in Callers :
          \/ Quiet(t) /\ StartAny(t)
          \/ Quiet(t) /\ GtCheck(t)
          \/ Quiet(t) /\ GtCache(t)
          \/ Quiet(t) /\ GtSet(t)
          \/ Quiet(t) /\ Return(t)
          \/ Quiet(t) /\ TkWait(t)
          \/ Quiet(t) /\ TkChk(t)
          \/ Quiet(t) /\ SvOpen(t)
          \/ Quiet(t) /\ SvWrite(t)
          \/ Quiet(t) /\ RqWait(t)
          \/ Quiet(t) /\ ClExists(t)
          \/ Quiet(t) /\ ClUnlink(t)
          \/ Quiet(t) /\ ClMem(t)
          \/ Quiet(t) /\ CkOpen(t)
          \/ Quiet(t) /\ CkWrite(t)
          \/ Quiet(t) /\ CcExists(t)
          \/ Quiet(t) /\ CcUnlink(t)
          \/ Quiet(t) /\ CrRead(t)
          \/ Quiet(t) /\ CrWait(t)
          \/ Quiet(t) /\ LgWait(t)
          \/ Quiet(t) /\ Interrupt(t)
    \/ Tick

SpecSerial == Init /\ [][NextSerial]_vars

(* ------------------- the token cache, used on its own ------------------ *)

\* Lifetimes a token is saved with: out of its margin at once, at the margin,
\* one and ten seconds above it, and the default.
SavedLifetimes == {0, GRACE, GRACE + 1, GRACE + 10, DEFAULT_EXPIRES_IN}

\* save_token_cache(token, expires_in), config.py:100-111, run to its end.
CacheSave ==
    /\ \E token \in {PriorToken, FreshToken(1, 1)}, e \in SavedLifetimes :
         /\ files' = [files EXCEPT ![TOKEN_CACHE_FILE] =
                         token_cache_record(token, e, now)]
         /\ probe' = [record |-> "saved", token |-> token, t0 |-> now,
                      expires_in |-> e, read |-> FALSE, got |-> Miss,
                      at |-> 0]
    /\ UNCHANGED <<mem, now, creds, login, enc, lifetime, tokenExpiry, pc, op, retry, tok,
                   tmp, ttl, wr, fd, calls, resp, rejected, exch, refreshed,
                   outcome>>

\* get_token_cache(), config.py:82-97.
CacheGet ==
    /\ probe' = [probe EXCEPT !.read = TRUE,
                              !.got = get_token_cache(files[TOKEN_CACHE_FILE],
                                                      now),
                              !.at = now]
    /\ UNCHANGED <<mem, files, now, creds, login, enc, lifetime, tokenExpiry, pc, op,
                   retry, tok, tmp, ttl, wr, fd, calls, resp, rejected, exch,
                   refreshed, outcome>>

\* clear_token_cache(), config.py:114-117, run to its end.
CacheClear ==
    /\ files' = [files EXCEPT ![TOKEN_CACHE_FILE] = Absent]
    /\ probe' = [NoProbe EXCEPT !.record = "cleared"]
    /\ UNCHANGED <<mem, now, creds, login, enc, lifetime, tokenExpiry, pc, op, retry, tok,
                   tmp, ttl, wr, fd, calls, resp, rejected, exch, refreshed,
                   outcome>>

\* A second passes.
CacheTick ==
    /\ now < CacheMaxNow
    /\ now' = now + 1
    /\ UNCHANGED <<mem, files, creds, login, enc, lifetime, tokenExpiry, pc, op, retry,
                   tok, tmp, ttl, wr, fd, calls, resp, rejected, exch,
                   refreshed, outcome, probe>>

NextCache ==
    \/ CacheSave
    \/ CacheGet
    \/ CacheClear
    \/ CacheTick

SpecCache == Init /\ [][NextCache]_vars

(* ------------------- login_with_cas, run on its own -------------------- *)

NextLogin ==
    \/ SsoStart
    \/ SsoLanded
    \/ SsoBrokerReply
    \/ SsoSubmitted
    \/ SsoForcedReply
    \/ SsoRecheckReply

\* login_with_cas uses neither the token nor the files: it starts from a
\* client with credentials and an empty configuration directory.
InitLogin ==
    /\ Init
    /\ creds
    /\ ~lifetime.given
    /\ \A p \in Paths : files[p] = Absent

SpecLogin == InitLogin /\ [][NextLogin]_vars

\* Every request of the flow has a timeout (api.py:735, 768, 813, 835,
\* 849), so each one ends, with a response or with an exception, and the
\* flow goes on.
SpecLoginLive == SpecLogin /\ WF_vars(NextLogin)

(* ------------------ encrypt_password, used on its own ------------------ *)

NextCrypto ==
    \/ KeyBuilt({TestModulus})
    \/ EncGiven
    \/ EncReturn

SpecCrypto == InitLogin /\ [][NextCrypto]_vars

\* Keys of every size are built, and nothing is encrypted.
NextKey == KeyBuilt(Moduli)

SpecKey == InitLogin /\ [][NextKey]_vars

\* Keys of more than 16 bits are built and encode.
NextBlocks ==
    \/ KeyBuilt(EncodingModuli)
    \/ EncGiven
    \/ EncEncoded

SpecBlocks == InitLogin /\ [][NextBlocks]_vars

(* ------------------------------ claims --------------------------------- *)

Executing(t) == op[t] = "execute"

Ended(t) == pc[t] = "done"

\* C1: one execute POSTs to the endpoint at most twice, whatever the server
\* answers. A second AUTH_EXPIRED ends the call at once with that error, and
\* the error AUTH_EXPIRED is only ever surfaced after exactly two POSTs.
C1_RetryBound ==
    \A t \in Callers :
        Executing(t) =>
            /\ calls[t] <= 2
            /\ Len(resp[t]) <= calls[t]
            /\ (resp[t] = <<AUTH_EXPIRED, AUTH_EXPIRED>> =>
                    /\ Ended(t)
                    /\ outcome[t] = Raised("ServerRejected", AUTH_EXPIRED))
            /\ (outcome[t] = Raised("ServerRejected", AUTH_EXPIRED) =>
                    calls[t] = 2)

\* An execute that was answered AUTH_EXPIRED twice has ended.
C1_Witness ==
    \E t \in Callers :
        Executing(t) /\ Ended(t) /\ resp[t] = <<AUTH_EXPIRED, AUTH_EXPIRED>>

\* C2, as stated: an execute answered AUTH_EXPIRED once and then code 0 has
\* made exactly 2 HTTP calls, token exchanges included, and returns the
\* successful response.
C2_TwoHttpCalls ==
    \A t \in Callers :
        (Executing(t) /\ Ended(t) /\ resp[t] = <<AUTH_EXPIRED, CODE_OK>>) =>
            /\ outcome[t] = Success
            /\ calls[t] + exch[t] = 2

\* C2, amended: an execute answered AUTH_EXPIRED once and then code 0 has
\* POSTed to the endpoint exactly twice and returns the successful response;
\* its token exchanges, at most one before each POST, come on top. A first
\* AUTH_EXPIRED is never surfaced as an error.
C2_TwoEndpointCalls ==
    \A t \in Callers :
        Executing(t) =>
            /\ (Ended(t) /\ resp[t] = <<AUTH_EXPIRED, CODE_OK>> =>
                    /\ outcome[t] = Success
                    /\ calls[t] = 2
                    /\ exch[t] <= 2)
            /\ (resp[t] = <<AUTH_EXPIRED>> =>
                    outcome[t].kind # "ServerRejected")

\* An execute that was answered AUTH_EXPIRED and then code 0 has ended, after
\* fetching a token for the retry itself.
C2_Witness ==
    \E t \in Callers :
        /\ Executing(t) /\ Ended(t)
        /\ resp[t] = <<AUTH_EXPIRED, CODE_OK>>
        /\ refreshed[t]

\* C7: after save_token(t, ttl) at time T0, get_token at time T returns t
\* exactly when T < T0 + ttl - GRACE, and reports a miss from then on; after
\* clear_token it reports a miss.
C7_ExpiryBoundary ==
    /\ (probe.read /\ probe.record = "saved") =>
           ((probe.got.kind = "record" /\ probe.got.token = probe.token)
               <=> probe.at < probe.t0 + probe.expires_in - GRACE)
    /\ (probe.read /\ probe.record = "saved") =>
           (probe.got = Miss
               <=> probe.at >= probe.t0 + probe.expires_in - GRACE)
    /\ (probe.read /\ probe.record = "cleared") => probe.got = Miss

\* A token saved for ten seconds more than the margin is read exactly ten
\* seconds later, and is not returned.
C7_Witness ==
    /\ probe.read /\ probe.record = "saved"
    /\ probe.expires_in = GRACE + 10
    /\ probe.at = probe.t0 + 10
    /\ probe.got = Miss

\* The positions at which _get_token returns self._token.
ReturnPositions == {"ret_mem", "ret_cache", "ret_new"}

\* Caller t's _get_token returns in this step.
Returns(t) == pc[t] \in ReturnPositions /\ pc'[t] \notin ReturnPositions

\* The token cache file holds token x.
Holds(content, x) == content.kind = "record" /\ content.token = x

\* C3: the retry that follows an AUTH_EXPIRED never carries the token that
\* was just rejected, also when several callers share the client.
C3_RetryCarriesFreshToken ==
    \A t \in Callers :
        (Executing(t) /\ pc[t] = "rq_wait" /\ ~retry[t]) =>
            tok[t] # rejected[t]

\* C4: of the callers that were answered AUTH_EXPIRED for the same token, at
\* most one has a token exchange in flight.
C4_SingleRefreshInFlight ==
    \A t, u \in Callers :
        (/\ t # u
         /\ pc[t] = "tk_wait" /\ ~retry[t]
         /\ pc[u] = "tk_wait" /\ ~retry[u])
            => rejected[t] # rejected[u]

\* C5: once a caller's refresh after an AUTH_EXPIRED has stored its new
\* token, no _get_token of any caller returns the token that caller had seen
\* rejected.
C5_RejectedTokenNeverReturned ==
    [][\A t, u \in Callers :
          (Returns(t) /\ refreshed[u] /\ rejected[u] # None)
              => tok'[t] # rejected[u]]_vars

\* C6: at every instant the token file and the cookie file hold a complete
\* record (or none), never an empty or half-written one.
C6_AtomicReplace ==
    \A p \in Paths : files[p].kind # "partial"

\* C8: whenever _get_token decides to return a token without an exchange, the
\* in-memory copy at api.py:42 or the cached record at api.py:48, that token
\* has expires_at > now + GRACE.
C8_ValidWhenReturned ==
    [][\A t \in Callers :
          /\ (pc[t] = "gt_check" /\ pc'[t] = "ret_mem")
                => tokenExpiry[mem] > now + GRACE
          /\ (pc[t] = "gt_cache" /\ pc'[t] = "gt_set")
                => tokenExpiry[tmp'[t]] > now + GRACE]_vars

\* C9: after an execute was answered AUTH_EXPIRED, on the retry as on the
\* first attempt, neither the in-memory copy nor the cache file holds the
\* token it had sent.
C9_InvalidatedOnEveryExpiry ==
    [][\A t \in Callers :
          (/\ Executing(t)
           /\ pc[t] \in {"rq_wait", "cl_mem"} /\ pc'[t] # pc[t]
           /\ resp'[t] # <<>>
           /\ resp'[t][Len(resp'[t])] = AUTH_EXPIRED
           /\ pc'[t] \in {"done", "gt_check"})
              => /\ mem' # tok[t]
                 /\ ~Holds(files'[TOKEN_CACHE_FILE], tok[t])]_vars

\* C10: the cookie file changes only in a step of save_cookie or clear_cookie
\* (login saves through save_cookie), and the token file only in a step of
\* _get_token's save or _request's clear.
C10_RecordsIndependent ==
    [][/\ files'[COOKIE_FILE] # files[COOKIE_FILE] =>
            \E t \in Callers :
                /\ op[t] \in {"save_cookie", "clear_cookie", "login"}
                /\ pc[t] \in {"ck_open", "ck_write", "cc_unlink"}
                /\ pc'[t] # pc[t]
       /\ files'[TOKEN_CACHE_FILE] # files[TOKEN_CACHE_FILE] =>
            \E t \in Callers :
                /\ op[t] \in BearerOps
                /\ pc[t] \in {"sv_open", "sv_write", "cl_unlink"}
                /\ pc'[t] # pc[t]]_vars

\* An execute went through its AUTH_EXPIRED retry and cleared the token file,
\* a login failed, and the cookie record is still the one found at the start.
C10_Witness ==
    \E t, u \in Callers :
        /\ Executing(t) /\ Ended(t) /\ resp[t] = <<AUTH_EXPIRED, AUTH_EXPIRED>>
        /\ op[u] = "login" /\ Ended(u) /\ outcome[u].kind = "LoginFailed"
        /\ files[COOKIE_FILE] = CookieRecord("session=a", "", 0)
        /\ files[TOKEN_CACHE_FILE] # TokenRecord(PriorToken, GRACE + 1)

\* The lifetime _get_token saves a token with: the one the server names, or
\* DEFAULT_EXPIRES_IN when it names none.
SavedLifetime ==
    IF lifetime.given THEN lifetime.expires_in ELSE DEFAULT_EXPIRES_IN

\* Caller t's _get_token was called with force_refresh=True (api.py:151).
Forced(t) == op[t] = "test_connection"

\* C11: _get_token resolves in a fixed order. It starts a token exchange only
\* when forced, or when there is no in-memory copy and the cache lookup
\* misses; when forced it never returns a copy; unforced it returns the
\* in-memory copy if there is one, else the token of the cache record; and
\* when it returns the token of an exchange, self._token and the cache file
\* both hold that token, saved with the server's lifetime or the default.
C11_ResolutionOrder ==
    [][\A t \in Callers :
          /\ exch'[t] # exch[t] =>
                \/ Forced(t)
                \/ /\ mem = None
                   /\ get_token_cache(files[TOKEN_CACHE_FILE], now) = Miss
          /\ (Forced(t) /\ pc[t] = "gt_check" /\ pc'[t] # pc[t]) =>
                pc'[t] \in {"tk_wait", "done"}
          /\ (Forced(t) /\ Returns(t)) => pc[t] = "ret_new"
          /\ (~Forced(t) /\ pc[t] = "gt_check" /\ pc'[t] # pc[t]
                 /\ mem # None) =>
                /\ pc'[t] = "ret_mem"
                /\ exch' = exch
          /\ (pc[t] = "ret_mem" /\ Returns(t)) =>
                tok'[t] = mem /\ mem # None
          /\ (pc[t] = "gt_cache" /\ pc'[t] # pc[t]
                 /\ get_token_cache(files[TOKEN_CACHE_FILE], now) # Miss) =>
                /\ pc'[t] = "gt_set"
                /\ exch' = exch
          /\ (pc[t] = "ret_cache" /\ Returns(t)) =>
                /\ Holds(files[TOKEN_CACHE_FILE], tok'[t])
                /\ mem = tok'[t]
          /\ (pc[t] = "ret_new" /\ Returns(t)) =>
                /\ tok'[t] = FreshToken(t, exch[t])
                /\ mem = tok'[t]
                /\ Holds(files[TOKEN_CACHE_FILE], tok'[t])
                /\ files[TOKEN_CACHE_FILE].expires_at - SavedLifetime
                      \in 0..now]_vars

\* A forced _get_token has returned the token of its own exchange although a
\* call before it had left a token in memory, and a second after the start
\* the cache file holds the new token.
C11_Witness ==
    \E t, u \in Callers :
        /\ t # u
        /\ Executing(u) /\ Ended(u) /\ outcome[u] = Success
        /\ op[t] = "test_connection" /\ Ended(t) /\ outcome[t] = Success
        /\ tok[t] = FreshToken(t, 1) /\ mem = tok[t]
        /\ tok[u] = PriorToken
        /\ Holds(files[TOKEN_CACHE_FILE], tok[t])
        /\ now = 1

\* The positions of a caller inside _get_token after the credential check.
ExchangePositions == {"tk_wait", "tk_chk", "sv_open", "sv_write", "ret_new"}

\* C12, as stated: without credentials _get_token always fails, so no caller
\* is ever handed a token, no request reaches the token endpoint and the
\* token record is never written by _get_token.
C12_AlwaysFailsWithoutCredentials ==
    ~creds =>
        \A t \in Callers :
            /\ pc[t] \notin ReturnPositions \cup ExchangePositions
            /\ tok[t] = None
            /\ exch[t] = 0

\* C12, amended: without credentials a _get_token that reaches the token
\* exchange (forced, or no in-memory copy and a cache miss) raises
\* AuthConfigMissing in that very step, with no request sent to the token
\* endpoint and with self._token and the token file left as they were; a
\* _get_token that finds a copy returns it.
C12_NoExchangeWithoutCredentials ==
    [][~creds =>
          \A t \in Callers :
              /\ exch'[t] = 0
              /\ pc'[t] \notin ExchangePositions
              /\ ((\/ pc[t] = "gt_check" /\ Forced(t)
                   \/ /\ pc[t] = "gt_cache"
                      /\ get_token_cache(files[TOKEN_CACHE_FILE], now) = Miss)
                  /\ pc'[t] # pc[t]) =>
                    /\ Ended(t)'
                    /\ outcome'[t] = Raised("AuthConfigMissing", 0)
                    /\ files' = files
                    /\ mem' = mem
              /\ outcome'[t].kind = "AuthConfigMissing" =>
                    /\ op[t] \in BearerOps
                    /\ tok'[t] \in {None, rejected[t]}
              /\ Returns(t) => tok'[t] = PriorToken]_vars

\* Without credentials, an execute sent the cached token, was answered
\* AUTH_EXPIRED, and its retry ended with AuthConfigMissing: no token exchange
\* was sent and the token file is gone through the clear, not through
\* _get_token.
C12_Witness ==
    \E t \in Callers :
        /\ ~creds
        /\ Executing(t) /\ Ended(t)
        /\ resp[t] = <<AUTH_EXPIRED>>
        /\ outcome[t] = Raised("AuthConfigMissing", 0)
        /\ exch[t] = 0
        /\ files[TOKEN_CACHE_FILE] = Absent

\* The business code of the last response caller t received.
LastCode(t) == resp[t][Len(resp[t])]

\* C13: an execute whose last response has a non-zero code, other than
\* AUTH_EXPIRED on the first attempt, has ended with ServerRejected carrying
\* that code; one whose last response has code 0 has ended with that response
\* as its result, and nothing else ends in success; a second POST is only
\* ever sent after a first response with AUTH_EXPIRED.
C13_BusinessCodesSurfaced ==
    \A t \in Callers :
        (Executing(t) /\ resp[t] # <<>>) =>
            /\ (LastCode(t) # CODE_OK
                    /\ ~(LastCode(t) = AUTH_EXPIRED /\ Len(resp[t]) = 1)) =>
                  /\ Ended(t)
                  /\ outcome[t] = Raised("ServerRejected", LastCode(t))
            /\ LastCode(t) = CODE_OK =>
                  Ended(t) /\ outcome[t] = Success
            /\ outcome[t] = Success => LastCode(t) = CODE_OK
            /\ calls[t] > 1 => resp[t][1] = AUTH_EXPIRED

\* An execute was answered AUTH_EXPIRED, retried, was answered 500 and ended
\* with ServerRejected(500).
C13_Witness ==
    \E t \in Callers :
        /\ Executing(t) /\ Ended(t)
        /\ resp[t] = <<AUTH_EXPIRED, 500>>
        /\ outcome[t] = Raised("ServerRejected", 500)

\* Caller t's POST to the endpoint, or its token exchange, ends in this step
\* without an answer from the server.
Unanswered(t) ==
    \/ pc[t] = "rq_wait" /\ pc'[t] # pc[t] /\ resp'[t] = resp[t]
    \/ /\ pc[t] = "tk_wait" /\ pc'[t] = "done"
       /\ outcome'[t].kind # "TokenRejected"

\* C14: a POST to the endpoint or a token exchange that gets no answer ends
\* the call with ConnectivityError, which is not the ServerRejected of an
\* API-level error, and nothing is retried: a call that ended so sends no
\* further request to the endpoint or to the token endpoint. An execute ends
\* with ServerRejected only on a business code the server answered.
C14_TransportFailureSurfaced ==
    [][\A t \in Callers :
          /\ Unanswered(t) =>
                /\ Ended(t)'
                /\ outcome'[t] = Raised("ConnectivityError", 0)
                /\ outcome'[t].kind # "ServerRejected"
                /\ calls'[t] = calls[t]
                /\ exch'[t] = exch[t]
          /\ outcome[t].kind = "ConnectivityError" =>
                /\ Ended(t) /\ Ended(t)'
                /\ calls'[t] = calls[t]
                /\ exch'[t] = exch[t]
          /\ (Executing(t) /\ outcome'[t].kind = "ServerRejected") =>
                (resp'[t] # <<>> /\ resp'[t][Len(resp'[t])] = outcome'[t].code)]_vars

\* One execute was answered AUTH_EXPIRED and lost its retry POST to a
\* transport failure; a forced _get_token lost its token exchange to one.
C14_Witness ==
    \E t, u \in Callers :
        /\ Executing(t) /\ Ended(t)
        /\ resp[t] = <<AUTH_EXPIRED>> /\ calls[t] = 2
        /\ outcome[t] = Raised("ConnectivityError", 0)
        /\ op[u] = "test_connection" /\ Ended(u)
        /\ exch[u] = 1
        /\ outcome[u] = Raised("ConnectivityError", 0)

\* The requests of the flow that carry the credential form.
CredentialPosts ==
    {k \in 1..Len(login.reqs) : login.reqs[k].method = "POST"}

\* The jar holds a session cookie of the platform's own host.
TargetSession(jar) ==
    \E c \in jar : c.domain = TARGET_HOST /\ c.name = SESSION

\* The flow has ended in a failure.
SsoFailed(l) == l.pc = "done" /\ l.result.kind # "Success"

\* C15: the credential form is only ever POSTed to a URL whose host is the
\* CAS host; a flow that landed anywhere else has sent no credentials.
C15_CredentialsOnlyToProvider ==
    \A k \in CredentialPosts : login.reqs[k].url.host = IDP_HOST

\* C16: the first GET's final URL decides three ways. On the platform's host
\* with a session cookie of that host in the jar the flow returns at once;
\* otherwise on the broker's host it goes on as AtBroker; on any other
\* landing it fails without a further request, credentials included.
C16_StartClassification ==
    [][(login.pc = "get_root" /\ login'.pc # "get_root" /\ login'.last.ok) =>
          IF /\ login'.last.url.host = TARGET_HOST
             /\ TargetSession(login'.jar)
          THEN /\ login'.pc = "done"
               /\ login'.result.kind = "Success"
               /\ login'.reqs = login.reqs
          ELSE IF login'.last.url.host = BrokerHost
          THEN \/ login'.pc = "get_broker"
               \/ /\ login'.pc = "done"
                  /\ login'.result.kind = "BrokerEntryNotFound"
          ELSE /\ SsoFailed(login')
               /\ login'.reqs = login.reqs]_vars

\* The flow takes stock of the platform's cookies in this step: the forced
\* GET has answered, or the POST has ended on the platform's host.
Collecting ==
    /\ login'.last.ok
    /\ \/ login.pc = "get_forced" /\ login'.pc # "get_forced"
       \/ /\ login.pc = "post_form" /\ login'.pc # "post_form"
          /\ login'.last.url.host = TARGET_HOST
          /\ ~(InUrl(IDP_HOST, login'.last.url)
                 /\ InUrl(LOGIN_MARK, login'.last.url))

\* The cookies the flow collects from the jar have a session entry.
SessionCollected(jar) ==
    LET all_cookies == collect(jar, <<>>, 1) IN
      \E k \in 1..Len(all_cookies) : all_cookies[k][1] = SESSION

\* C17: the flow returns only when the cookies it collected for the platform
\* have a session entry, and the string it returns is those cookies, session
\* entry included. When the entry is missing after the form was submitted,
\* exactly one more GET of the platform follows; after it the flow ends
\* without a further request, in SessionNotEstablished if the entry is still
\* missing.
C17_SuccessNeedsSession ==
    [][/\ login'.result.kind = "Success" =>
            /\ SessionCollected(login'.jar)
            /\ login'.result.cookie_str = login'.all_cookies
            /\ \E k \in 1..Len(login'.result.cookie_str) :
                  login'.result.cookie_str[k][1] = SESSION
       /\ Collecting =>
            IF SessionCollected(login'.jar)
            THEN /\ login'.result.kind = "Success"
                 /\ login'.reqs = login.reqs
            ELSE /\ login'.pc = "get_recheck"
                 /\ login'.reqs = Append(login.reqs, Get(base_url))
       /\ (login.pc = "get_recheck" /\ login'.pc # "get_recheck") =>
            /\ login'.pc = "done"
            /\ login'.reqs = login.reqs
            /\ ~SessionCollected(login'.jar) =>
                  login'.result = [kind |-> "SessionNotEstablished",
                                   cookie_str |-> <<>>]]_vars

\* The flow went through the broker, the form, the forced GET and the second
\* GET of the platform, which brought the session cookie, and returned.
C17_Witness ==
    /\ login.pc = "done"
    /\ login.result.kind = "Success"
    /\ Len(login.reqs) = 5
    /\ login.reqs[4] = Get(base_url)
    /\ login.reqs[5] = Get(base_url)
    /\ login.result.cookie_str[1] = <<SESSION, "s">>

\* C18: a POST that ends on the CAS host with "login" in the URL is a
\* rejection, classified by the page: the wrong-credentials text gives
\* BadCredentials even with the CAPTCHA text present, else the CAPTCHA text
\* gives CaptchaRequired, else UnknownLoginRejection. The flow ends there:
\* no success, no further request, and the form is never POSTed twice.
C18_RejectionClassified ==
    [][/\ (/\ login.pc = "post_form" /\ login'.pc # "post_form"
           /\ login'.last.ok
           /\ login'.last.url.host = IDP_HOST
           /\ InUrl(LOGIN_MARK, login'.last.url)) =>
              /\ login'.pc = "done"
              /\ login'.reqs = login.reqs
              /\ login'.result.kind =
                    IF login'.last.page.wrong THEN "BadCredentials"
                    ELSE IF login'.last.page.captcha THEN "CaptchaRequired"
                    ELSE "UnknownLoginRejection"
       /\ login.result.kind \in {"BadCredentials", "CaptchaRequired",
                                 "UnknownLoginRejection"} =>
              login' = login
       /\ Cardinality({k \in 1..Len(login'.reqs) :
                          login'.reqs[k].method = "POST"}) <= 1]_vars

\* A page with both the wrong-credentials text and the CAPTCHA text has
\* ended the flow in BadCredentials.
C18_Witness ==
    /\ login.pc = "done"
    /\ login.result.kind = "BadCredentials"
    /\ login.last.page.wrong /\ login.last.page.captcha
    /\ login.last.url = Url(IDP_HOST, "/login")
    /\ Len(login.reqs) = 3

\* The "k=v" entries of the jar's cookies whose domain is the platform's.
TargetEntries(jar) ==
    {<<c.name, c.value>> : c \in {d \in jar : d.domain = TARGET_HOST}}

\* C19: the string a successful flow returns has one "k=v" entry for each
\* cookie of the jar whose domain is the platform's and no other entry, so
\* none of a cookie the broker or the CAS host set; and the jar never loses
\* a cookie during the flow.
C19_OnlyTargetCookies ==
    [][/\ login'.result.kind = "Success" =>
            /\ {login'.result.cookie_str[k] :
                   k \in 1..Len(login'.result.cookie_str)}
                 = TargetEntries(login'.jar)
            /\ Len(login'.result.cookie_str)
                 = Cardinality(TargetEntries(login'.jar))
       /\ login.jar \subseteq login'.jar]_vars

\* A string of 254, 255 or 256 characters, each a hex digit of either case.
CiphertextLike(s) ==
    /\ Len(s) \in {254, 255, 256}
    /\ \A i \in 1..Len(s) :
          s[i] \in {"0", "1", "2", "3", "4", "5", "6", "7", "8", "9",
                    "a", "b", "c", "d", "e", "f",
                    "A", "B", "C", "D", "E", "F"}

\* The hex digits of the encrypted blocks of s, one block for every
\* chunk_size characters of s, with nothing between them.
BlockEncryption(rsa, s) ==
    LET blocks == (Len(s) + rsa.chunk_size - 1) \div rsa.chunk_size
        code(k) == IF k <= Len(s) THEN Ord(s[k]) ELSE 0
        hex == [b \in 1..blocks |->
                  int2hex(pow_mod(small(encode_block(
                                            [k \in 1..(blocks * rsa.chunk_size)
                                               |-> code(k)],
                                            (b - 1) * rsa.chunk_size,
                                            rsa.chunk_size)),
                                  as_int(rsa.exponent), as_int(rsa.modulus)))]
    IN remove(join(hex, " "), " ")

\* C20: encrypt returns a string of 254, 255 or 256 hex digits (of either
\* case) as it was given, and for every other non-empty string it returns
\* the RSA encryption of the string's blocks, which is made of lower-case hex
\* digits only.
C20_EncryptIdempotent ==
    enc.returned =>
        /\ CiphertextLike(enc.password) => enc.out = enc.password
        /\ (~CiphertextLike(enc.password) /\ enc.password # <<>>) =>
              /\ enc.out = BlockEncryption(TestKey, enc.password)
              /\ enc.out # <<>>
              /\ \A i \in 1..Len(enc.out) :
                    \E v \in 1..16 : enc.out[i] = HexChars[v]

\* A ciphertext of 254 hex digits of both cases came back as it was given.
C20_Witness ==
    /\ enc.returned
    /\ Len(enc.password) = 254
    /\ enc.password[1] = "F" /\ enc.password[254] = "A"
    /\ CiphertextLike(enc.password)
    /\ enc.out = enc.password

\* The private exponent of TestKey: 0x010001 * 0xf801 = 1 modulo
\* (257 - 1) * (263 - 1).
TestPrivateExponent == as_int(hex2int(<<"f", "8", "0", "1">>))

\* The least multiple of chunk_size that is at least length.
PaddedLen(length, chunk_size) ==
    ((length + chunk_size - 1) \div chunk_size) * chunk_size

\* Byte k, counted from 0, of the code points of s followed by zeros.
PaddedByte(s, k) == IF k < Len(s) THEN Ord(s[k + 1]) ELSE 0

RECURSIVE DigitSum(_, _, _, _)
\* The sum of digit_i << 16*i for i from digit on, digit_i packing bytes
\* start + 2i and start + 2i + 1 little-endian, over `digits` digits.
DigitSum(s, start, digit, digits) ==
    IF digit >= digits THEN 0
    ELSE (PaddedByte(s, start + 2 * digit)
            + 256 * PaddedByte(s, start + 2 * digit + 1))
           * shift_left(1, 16 * digit)
         + DigitSum(s, start, digit + 1, digits)

\* The block integers of s in order, one for every chunk_size bytes of its
\* padded byte sequence.
BlockIntegers(rsa, s) ==
    [b \in 1..(PaddedLen(Len(s), rsa.chunk_size) \div rsa.chunk_size) |->
        DigitSum(s, (b - 1) * rsa.chunk_size, 0, rsa.chunk_size \div 2)]

\* A block as int2hex writes it: hex digits with no leading zero, of a value
\* below the modulus.
IsBlockText(rsa, text) ==
    /\ text # <<>>
    /\ Len(text) <= Len(rsa.modulus)
    /\ text[1] = "0" => Len(text) = 1
    /\ as_int(text) < as_int(rsa.modulus)

RECURSIVE Decodings(_, _, _)
\* What decryption can make of a ciphertext: for every way of cutting text
\* into blocks, the integers c^d mod n of the blocks in order, where each is
\* a block integer, that is, below 2^(8 * chunk_size).
Decodings(rsa, d, text) ==
    IF text = <<>> THEN {<<>>}
    ELSE UNION
           {LET m == pow_mod(as_int(SubSeq(text, 1, w)), d,
                             as_int(rsa.modulus))
            IN IF m < shift_left(1, 8 * rsa.chunk_size)
               THEN {<<m>> \o rest :
                       rest \in Decodings(rsa, d,
                                          SubSeq(text, w + 1, Len(text)))}
               ELSE {} :
            w \in {v \in 1..Len(text) :
                     IsBlockText(rsa, SubSeq(text, 1, v))}}

BitLengthOf(numeral) ==
    4 * (Len(numeral) - 1)
      + (CASE numeral[1] = "1" -> 1
           [] numeral[1] \in {"2", "3"} -> 2
           [] numeral[1] \in {"4", "5", "6", "7"} -> 3
           [] OTHER -> 4)

\* ceil(a / b) for a >= 1: the least k with k * b >= a.
CeilDiv(a, b) == CHOOSE k \in 1..a : k * b >= a /\ (k - 1) * b < a

\* C22: a key built from a modulus of bit length B >= 1 has chunk_size
\* 2 * (ceil(B / 16) - 1), and the key built from the modulus of
\* PasswordEncryptor, which has 1024 bits, has chunk_size 126.
C22_ChunkSizeFormula ==
    (enc.built /\ enc.rsa.modulus # <<>>) =>
        /\ enc.rsa.chunk_size
             = 2 * (CeilDiv(BitLengthOf(enc.rsa.modulus), 16) - 1)
        /\ enc.rsa.modulus = SubSeq(MODULUS, 3, Len(MODULUS)) =>
             /\ BitLengthOf(enc.rsa.modulus) = 1024
             /\ enc.rsa.chunk_size = 126

\* The key of PasswordEncryptor was built, with chunk_size 126.
C22_Witness ==
    /\ enc.built
    /\ enc.rsa.modulus = SubSeq(MODULUS, 3, Len(MODULUS))
    /\ enc.rsa.chunk_size = 126

\* The number of bits of a block from its 16-bit digits, least first.
BlockBits(block) ==
    IF block = <<>> THEN 0
    ELSE 16 * (Len(block) - 1)
           + (CHOOSE k \in 0..16 :
                 /\ block[Len(block)] < shift_left(1, k)
                 /\ k = 0 \/ block[Len(block)] >= shift_left(1, k - 1))

\* Byte k of a block, counted from 0: the low half of digit k / 2 when k is
\* even and the high half when it is odd.
ByteOf(block, k) ==
    LET digit == IF k \div 2 < Len(block) THEN block[k \div 2 + 1] ELSE 0
    IN IF k % 2 = 0 THEN digit % 256 ELSE digit \div 256

\* C30: under a key whose modulus has more than 16 bits, every block the
\* encoder builds from a plaintext of code points 0..255 is at least 0 and
\* has at most 8 * chunk_size bits, which is fewer than the modulus has, so
\* the block is below 2^(8 * chunk_size) and below the modulus; and the
\* block gives back the bytes it was built from, so two different padded
\* blocks never make the same integer.
C30_BlocksBelowModulus ==
    (enc.encoded /\ BitLengthOf(enc.rsa.modulus) > 16) =>
        /\ Len(enc.blocks) * enc.rsa.chunk_size
             = PaddedLen(Len(enc.password), enc.rsa.chunk_size)
        /\ \A b \in 1..Len(enc.blocks) :
              /\ \A i \in 1..Len(enc.blocks[b]) :
                    enc.blocks[b][i] \in 0..65535
              /\ BlockBits(enc.blocks[b]) <= 8 * enc.rsa.chunk_size
              /\ 8 * enc.rsa.chunk_size < BitLengthOf(enc.rsa.modulus)
              /\ \A k \in 0..(enc.rsa.chunk_size - 1) :
                    ByteOf(enc.blocks[b], k)
                      = PaddedByte(enc.password,
                                   (b - 1) * enc.rsa.chunk_size + k)

\* Under the key of PasswordEncryptor a password of 257 characters was
\* encoded in three blocks, the first of 63 digits.
C30_Witness ==
    /\ enc.encoded
    /\ enc.rsa.chunk_size = 126
    /\ Len(enc.password) = 257
    /\ Len(enc.blocks) = 3
    /\ Len(enc.blocks[1]) = 63

\* The GETs of the broker's CAS entry among the requests.
BrokerGets(reqs) ==
    {k \in 1..Len(reqs) : reqs[k].method = "GET" /\ reqs[k].url # base_url}

\* The POSTs of the credential form among the requests.
FormPosts(reqs) == {k \in 1..Len(reqs) : reqs[k].method = "POST"}

\* C23: a step that finds a failure sends no request and ends the flow; a
\* flow that has failed stays as it is, so it sends nothing more and never
\* succeeds; and in one flow the broker's CAS entry is requested at most once
\* and the form is posted at most once.
C23_FailedIsTerminal ==
    [][/\ (login'.result.kind \notin {"running", "Success"}
             /\ login.result.kind = "running") =>
              (login'.pc = "done" /\ login'.reqs = login.reqs)
       /\ login.result.kind \notin {"running", "Success"} => login' = login
       /\ Cardinality(BrokerGets(login'.reqs)) <= 1
       /\ Cardinality(FormPosts(login'.reqs)) <= 1]_vars

\* The login was rejected after the broker's CAS entry was requested and
\* the form was posted.
C23_Witness ==
    /\ login.pc = "done"
    /\ login.result.kind = "UnknownLoginRejection"
    /\ Cardinality(BrokerGets(login.reqs)) = 1
    /\ Cardinality(FormPosts(login.reqs)) = 1

\* C24: a request of the flow that ends in a transport failure ends the flow
\* with a ConnectivityError, whichever of its requests it is.
C24_TransportFailureFatal ==
    ~login.last.ok =>
        (login.pc = "done" /\ login.result.kind = "ConnectivityError")

\* The first GET has ended on the broker's host, and the flow has done what
\* it does there and no more.
AtBroker ==
    /\ login.last.ok
    /\ login.last.url.host = BrokerHost
    /\ \/ login.pc = "get_broker"
       \/ login.pc = "done" /\ Len(login.reqs) = 1

\* C25: on the broker's page, without a loginUrl that has broker/cas/login
\* in it the flow fails with BrokerEntryNotFound and has sent nothing but the
\* first GET; with one it has sent exactly one more request, a GET of the CAS
\* entry on the broker's host, whether the page gave the URL in full or
\* relative to the broker, with its slashes escaped or not.
C25_BrokerEntry ==
    AtBroker =>
        IF cas_url_match(login.last.page.loginUrl)
        THEN /\ login.pc = "get_broker"
             /\ Len(login.reqs) = 2
             /\ login.reqs[2] = Get(Url(BrokerHost, "/broker/cas/login"))
        ELSE /\ login.pc = "done"
             /\ login.result.kind = "BrokerEntryNotFound"
             /\ Len(login.reqs) = 1

\* C26: a flow never sends more than 6 requests, sooner or later it has
\* ended and stays ended, and when it has ended it has one result, success
\* or one failure.
C26_Terminates ==
    /\ [](Len(login.reqs) <= 6)
    /\ [](login.pc = "done" => login.result.kind # "running")
    /\ <>[](login.pc = "done")

\* A flow succeeded after all of its requests: the first GET, the GET of
\* the broker's CAS entry, the POST, the forced GET and the recheck.
C26_Witness ==
    /\ login.pc = "done"
    /\ login.result.kind = "Success"
    /\ Len(login.reqs) = 5

\* The cache file holds a token that caller u obtained in a token exchange.
SavedBy(u) ==
    /\ files[TOKEN_CACHE_FILE].kind = "record"
    /\ files[TOKEN_CACHE_FILE].token \in {FreshToken(u, k) : k \in 1..2}

\* C27: when a caller handles an AUTH_EXPIRED that it was given for an older
\* token, the token another caller has obtained and saved since stays in the
\* cache file and, where it is there, in self._token.
C27_OnlyRejectedInvalidated ==
    [][\A t, u \in Callers :
          (/\ t # u
           /\ rejected[t] # None
           /\ pc[t] \in {"cl_unlink", "cl_mem"} /\ pc'[t] # pc[t]
           /\ SavedBy(u)
           /\ files[TOKEN_CACHE_FILE].token # rejected[t])
              => /\ files'[TOKEN_CACHE_FILE] = files[TOKEN_CACHE_FILE]
                 /\ mem = files[TOKEN_CACHE_FILE].token => mem' = mem
      ]_vars

\* C28: clearing the token never raises, whether or not there is a record
\* and whoever else is clearing it, and the step in which it returns leaves
\* no cache file.
C28_ClearNeverFails ==
    [][\A t \in Callers :
          (pc[t] \in {"cl_exists", "cl_unlink"} /\ pc'[t] # pc[t])
              => /\ outcome'[t].kind # "FileNotFoundError"
                 /\ pc'[t] = "cl_mem" => files'[TOKEN_CACHE_FILE].kind = "absent"
      ]_vars

\* The positions of _get_token from which a token exchange fails.
FailingPositions == {"tk_wait", "tk_chk"}

\* C29: a token exchange that is answered with a business error, or with
\* code 0 and no access_token, ends the caller's operation with an error in
\* that step: the cache file is as it was, and the caller has been returned
\* no token and sends no request.
C29_FailedExchangeWritesNothing ==
    [][\A t \in Callers :
          /\ (pc[t] \in FailingPositions /\ pc'[t] = "done")
                => /\ files' = files
                   /\ outcome'[t].kind \in
                        {"TokenRejected", "NoAccessToken", "ConnectivityError"}
                   /\ tok'[t] = tok[t]
                   /\ calls'[t] = calls[t]
          /\ (pc[t] = "tk_wait" /\ pc'[t] = "tk_chk" /\ mem' = None)
                => files' = files
          /\ (pc[t] = "tk_chk" /\ mem = None /\ pc'[t] # pc[t])
                => (pc'[t] = "done" /\ outcome'[t].kind = "NoAccessToken")
      ]_vars

\* A forced refresh got code 0 without an access_token and failed, and the
\* record that was in the cache file is still there.
C29_Witness ==
    \E t \in Callers :
        /\ outcome[t] = Raised("NoAccessToken", 0)
        /\ files[TOKEN_CACHE_FILE].kind = "record"

====
